---- MODULE Spec2Model ----
(***************************************************************************)
(* A model of goiso9660: the ISO 9660 / Joliet image builder.               *)
(*                                                                         *)
(* Names are sequences of Unicode scalar values (Go strings holding valid  *)
(* UTF-8; Go's string order is then the lexicographic order of the         *)
(* scalars).  Identifiers on disk are sequences of bytes.  The image is a  *)
(* sequence of 2048-byte sectors; each sector records which payload was    *)
(* written there and which 2048-byte slice of that payload it holds.       *)
(***************************************************************************)
EXTENDS Integers, Sequences, FiniteSets, TLC

(***************************************************************************)
(* Program constants                                                       *)
(***************************************************************************)
SectorSize == 2048
JolietMaxFilenameChars == 64
SystemAreaNumSectors == 16
drFixedPartSize == 33
ptRecFixedPartSize == 8

\* Go's uint32(n) and byte(n) conversions.  Integers here are below 2^31.  A
\* 32-bit quantity v below 2^31 is held as v; one from 2^31 to 2^32 - 1 is held
\* as v - 2^32, its bit pattern read as an int32 (4294967295 is -1).  File
\* sizes and byte counts derived from them are held this way; every other
\* quantity of the source trees explored stays below 2^31.  byte(n) keeps the
\* low eight bits.
U32(n) == n
Byte(n) == n % 256

\* uint32 addition a + b of a uint32 a and a constant 0 <= b < 2^31, modulo 2^32
AddU32(a, b) ==
    IF a >= 0 /\ a > 2147483647 - b
    THEN (a - 2147483647 - 1) + (b - 2147483647 - 1)
    ELSE a + b

\* uint32 division a / d for a power of two d <= 2^30
DivU32(a, d) ==
    IF a >= 0 THEN a \div d ELSE 4 * (1073741824 \div d) + (a \div d)

\* uint32 multiplication n * SectorSize modulo 2^32, for n < 2^21
MulSectorSizeU32(n) ==
    IF n < 1048576 THEN n * 2048 ELSE (n - 2097152) * 2048

\* a > b for two byte counts in 0 .. 2^32 - 1
GreaterBytes(a, b) ==
    IF (a < 0) = (b < 0) THEN a > b ELSE a < 0

(***************************************************************************)
(* Generic sequence helpers                                                *)
(***************************************************************************)
\* a local variable: F is applied to the value of e
Let(e, F(_)) == F(e)

Rep(c, n) == [i \in 1..n |-> c]

Take(s, n) == IF Len(s) > n THEN SubSeq(s, 1, n) ELSE s

Range(s) == {s[i] : i \in 1..Len(s)}

RECURSIVE Flatten(_)
Flatten(ss) == IF ss = <<>> THEN <<>> ELSE Head(ss) \o Flatten(Tail(ss))

RECURSIVE SumSeq(_)
SumSeq(s) == IF s = <<>> THEN 0 ELSE Head(s) + SumSeq(Tail(s))

\* bytes.Compare(a, b) < 0, and Go's string operator < on valid UTF-8
RECURSIVE LexLess(_, _)
LexLess(a, b) ==
    IF b = <<>> THEN FALSE
    ELSE IF a = <<>> THEN TRUE
    ELSE IF Head(a) # Head(b) THEN Head(a) < Head(b)
    ELSE LexLess(Tail(a), Tail(b))

\* sort.Slice with the comparator given as a relation lt over the indices of
\* the slice; the result is the sorted sequence of indices.  For at most 12
\* elements Go runs an insertion sort: each element is moved left past every
\* element it is less than (for more elements the result is the same whenever
\* no two elements compare equal).
RECURSIVE InsertSorted(_, _, _)
InsertSorted(s, x, lt) ==
    IF s = <<>> THEN <<x>>
    ELSE IF lt[x, s[Len(s)]] THEN Append(InsertSorted(SubSeq(s, 1, Len(s) - 1), x, lt), s[Len(s)])
    ELSE Append(s, x)

RECURSIVE SortSlice(_, _)
SortSlice(n, lt) ==
    IF n = 0 THEN <<>>
    ELSE InsertSorted(SortSlice(n - 1, lt), n, lt)

(***************************************************************************)
(* Characters                                                              *)
(***************************************************************************)
DOT == 46
UNDERSCORE == 95
SEMICOLON == 59

\* unicode.ToUpper restricted to the scalars whose upper case is ASCII; every
\* other scalar maps to a scalar outside A-Z, 0-9, '_' and '.'.
ToUpper(r) ==
    IF r >= 97 /\ r <= 122 THEN r - 32
    ELSE IF r = 383 THEN 83
    ELSE IF r = 305 THEN 73
    ELSE r

\* utf16.Encode of one scalar: one code unit in the BMP, a surrogate pair above
\* it, U+FFFD for a surrogate value.
utf16Units(r) ==
    IF r >= 65536 THEN <<55296 + ((r - 65536) \div 1024), 56320 + ((r - 65536) % 1024)>>
    ELSE IF r >= 55296 /\ r <= 57343 THEN <<65533>>
    ELSE <<r>>

\* encodeUTF16BE: each code unit as two bytes, high byte first
encodeUTF16BE(s) ==
    Flatten([i \in 1..Len(s) |->
        Flatten([k \in 1..Len(utf16Units(s[i])) |->
            <<utf16Units(s[i])[k] \div 256, utf16Units(s[i])[k] % 256>>])])

ROOTNAME == <<0>>
DOTNAME == <<DOT>>
DOTDOTNAME == <<DOT, DOT>>

\* truncateJolietName: at most JolietMaxFilenameChars runes are kept
truncateJolietName(originalName) ==
    IF originalName = ROOTNAME \/ originalName = DOTNAME \/ originalName = DOTDOTNAME
    THEN originalName
    ELSE IF Len(originalName) > JolietMaxFilenameChars
    THEN SubSeq(originalName, 1, JolietMaxFilenameChars)
    ELSE originalName

\* variant: a character that is not allowed is kept as it is
sanitizePartFunc_keepsOthers(part, maxLength, allowDot) ==
    Take([i \in 1..Len(part) |-> ToUpper(part[i])], maxLength)

\* the closure sanitizePartFunc inside sanitizeISO9660Name
sanitizePartFunc(part, maxLength, allowDot) ==
    Take([i \in 1..Len(part) |->
            LET r == ToUpper(part[i]) IN
            IF (r >= 65 /\ r <= 90) \/ (r >= 48 /\ r <= 57) \/ r = UNDERSCORE THEN r
            ELSE IF allowDot /\ r = DOT THEN DOT
            ELSE UNDERSCORE],
         maxLength)

\* strings.LastIndex(s, "."), 1-based; 0 when there is no dot
LastDot(s) == IF DOT \in Range(s) THEN CHOOSE i \in 1..Len(s) : s[i] = DOT /\ \A j \in (i+1)..Len(s) : s[j] # DOT ELSE 0

FirstDot(s) == IF DOT \in Range(s) THEN CHOOSE i \in 1..Len(s) : s[i] = DOT /\ \A j \in 1..(i-1) : s[j] # DOT ELSE 0

FILENAME == <<70, 73, 76, 69>>
DIRNAME == <<68, 73, 82>>

sanitizeISO9660Name(originalName, isDirectory) ==
    Let(LastDot(originalName), LAMBDA lastDot :
    LET split == (~isDirectory) /\ lastDot # 0 /\ lastDot < Len(originalName)
        base == IF split THEN SubSeq(originalName, 1, lastDot - 1) ELSE originalName
        ext == IF split THEN SubSeq(originalName, lastDot + 1, Len(originalName)) ELSE <<>>
    IN
    Let(sanitizePartFunc(base, 8, ~isDirectory), LAMBDA sanitizedBase :
    IF isDirectory
    THEN Let(Take([i \in 1..Len(sanitizedBase) |->
                     IF sanitizedBase[i] = DOT THEN UNDERSCORE ELSE sanitizedBase[i]], 8), LAMBDA noDots :
         IF noDots = <<>> THEN DIRNAME ELSE noDots)
    ELSE
    Let(IF ext # <<>> THEN sanitizePartFunc(ext, 3, FALSE) ELSE <<>>, LAMBDA ext1 :
    Let(DOT \in Range(sanitizedBase) /\ ext1 = <<>>, LAMBDA resplit :
    Let(FirstDot(sanitizedBase), LAMBDA fd :
    Let(IF resplit THEN sanitizePartFunc(SubSeq(sanitizedBase, 1, fd - 1), 8, FALSE) ELSE <<>>,
        LAMBDA potentialBase :
    Let(IF resplit THEN sanitizePartFunc(SubSeq(sanitizedBase, fd + 1, Len(sanitizedBase)), 3, FALSE)
        ELSE <<>>, LAMBDA potentialExt :
    Let(Take(IF resplit /\ potentialBase # <<>> THEN potentialBase ELSE sanitizedBase, 8),
        LAMBDA finalBase :
    Let(IF resplit /\ potentialBase # <<>> /\ potentialExt # <<>> THEN potentialExt ELSE ext1,
        LAMBDA finalExt :
    Let(IF finalExt # <<>> THEN finalBase \o <<DOT>> \o finalExt ELSE finalBase, LAMBDA finalName :
    Let(IF finalName = <<>> \/ finalName = <<DOT>> THEN FILENAME ELSE finalName, LAMBDA named :
        IF named # <<>> /\ Head(named) = DOT /\ Len(named) > 1 /\ finalExt # <<>> /\ finalBase = <<>>
        THEN finalExt ELSE named)))))))))))

(***************************************************************************)
(* Directory-record encoder                                                *)
(***************************************************************************)
\* getDRIdentifierBytes; the primary root placeholder "" is the empty name
getDRIdentifierBytes(name, isJoliet, isIdentifierForRootItself) ==
    IF isJoliet
    THEN IF isIdentifierForRootItself /\ (name = ROOTNAME \/ name = DOTNAME) THEN <<0>>
         ELSE encodeUTF16BE(name)
    ELSE IF name = DOTNAME \/ (isIdentifierForRootItself /\ name = <<>>) THEN <<0>>
         ELSE IF name = DOTDOTNAME THEN <<1>>
         ELSE name

calculateDirectoryRecordSize(identifierBytes) ==
    LET length == drFixedPartSize + Len(identifierBytes)
    IN IF length % 2 # 0 THEN length + 1 ELSE length

\* variant: the hidden bit is set whatever name the record carries
FileFlagsFor_anyName(drIDNameToEncode, targetEntry) ==
    (IF targetEntry.isDir THEN 2 ELSE 0) + (IF targetEntry.isHidden THEN 1 ELSE 0)

\* populateDirectoryRecordFields: the file flags (timestamps are not modelled)
FileFlagsFor(drIDNameToEncode, targetEntry) ==
    LET baseFileFlags == IF targetEntry.isDir THEN 2 ELSE 0
    IN IF drIDNameToEncode # DOTNAME /\ drIDNameToEncode # DOTDOTNAME
          /\ drIDNameToEncode # <<>> /\ drIDNameToEncode # ROOTNAME
          /\ targetEntry.isHidden
       THEN baseFileFlags + 1 ELSE baseFileFlags

\* variant: the record is padded when the identifier has an odd number of bytes
marshalDirectoryRecord_padsOdd(LocationExtent, DataLength, FileFlags, identifier) ==
    LET identifierLen == Byte(Len(identifier))
        recordLen == drFixedPartSize + identifierLen + (IF identifierLen % 2 # 0 THEN 1 ELSE 0)
        copied == Take(identifier, recordLen - drFixedPartSize)
    IN [size |-> recordLen,
        recordLenByte |-> Byte(recordLen),
        LocationExtent |-> LocationExtent,
        DataLength |-> DataLength,
        FileFlags |-> FileFlags,
        identifierLen |-> identifierLen,
        identifier |-> copied,
        padding |-> recordLen - drFixedPartSize - Len(copied)]

\* marshalDirectoryRecord: size is len(buf); recordLenByte is buf[0];
\* identifierLen is buf[32]; identifier holds what copy(buf[33:], identifier)
\* stores and padding counts the zero bytes that follow it.
marshalDirectoryRecord(LocationExtent, DataLength, FileFlags, identifier) ==
    LET identifierLen == Byte(Len(identifier))
        rl == drFixedPartSize + identifierLen
        recordLen == IF rl % 2 # 0 THEN rl + 1 ELSE rl
        copied == Take(identifier, recordLen - drFixedPartSize)
    IN [size |-> recordLen,
        recordLenByte |-> Byte(recordLen),
        LocationExtent |-> LocationExtent,
        DataLength |-> DataLength,
        FileFlags |-> FileFlags,
        identifierLen |-> identifierLen,
        identifier |-> copied,
        padding |-> recordLen - drFixedPartSize - Len(copied)]

createDirectoryRecordBytes(extentLBA, extentOrDataSize, drIDNameToEncode, targetEntry, isJoliet) ==
    LET isTargetEntryRoot == (targetEntry.pathTableDirNum = 1)
        isNameForRootItself ==
            isTargetEntryRoot /\
            IF isJoliet THEN (drIDNameToEncode = ROOTNAME \/ drIDNameToEncode = DOTNAME)
            ELSE (drIDNameToEncode = <<>> \/ drIDNameToEncode = DOTNAME)
    IN marshalDirectoryRecord(extentLBA, extentOrDataSize,
                              FileFlagsFor(drIDNameToEncode, targetEntry),
                              getDRIdentifierBytes(drIDNameToEncode, isJoliet, isNameForRootItself))

(***************************************************************************)
(* The source tree and the scanner                                         *)
(*                                                                         *)
(* A source tree is a sequence of nodes; node 1 is the source directory.   *)
(* kids lists a directory's entries in the order os.ReadDir returns them   *)
(* (sorted by file name).  Indices into fileEntries are 1-based here, so   *)
(* the root is entry 1 and its parentIndex is 1.                           *)
(***************************************************************************)
IsoRoot == <<>>

\* fileEntry as ScanSourceDirectory and scanDirectoryRecursive fill it in
\* variant: the scanner records the size of an entry for the primary namespace only
fileEntry_noJolietSize(originalName, diskPath, isoPath, isDir, level, parentIndex, size, pathTableDirNum) ==
    [originalName |-> originalName, diskPath |-> diskPath, isoPath |-> isoPath,
     isDir |-> isDir, level |-> level, parentIndex |-> parentIndex, children |-> <<>>,
     iso9660Name |-> <<>>, jolietName |-> <<>>,
     iso9660Size |-> size, jolietSize |-> 0,
     iso9660Sector |-> 0, jolietSector |-> 0,
     actualISO9660DrSize |-> 0, actualJolietDrSize |-> 0,
     pathTableDirNum |-> pathTableDirNum, isHidden |-> FALSE]

fileEntry(originalName, diskPath, isoPath, isDir, level, parentIndex, size, pathTableDirNum) ==
    [originalName |-> originalName, diskPath |-> diskPath, isoPath |-> isoPath,
     isDir |-> isDir, level |-> level, parentIndex |-> parentIndex, children |-> <<>>,
     iso9660Name |-> <<>>, jolietName |-> <<>>,
     iso9660Size |-> size, jolietSize |-> size,
     iso9660Sector |-> 0, jolietSector |-> 0,
     actualISO9660DrSize |-> 0, actualJolietDrSize |-> 0,
     pathTableDirNum |-> pathTableDirNum, isHidden |-> FALSE]

\* scanDirectoryRecursive.  st = [entries, next, err]; failNode is the
\* directory whose os.ReadDir fails (0: none fails).
RECURSIVE scanDirectoryRecursive(_, _, _, _, _)
RECURSIVE scanEntries(_, _, _, _, _)
scanDirectoryRecursive(st, tree, node, parentEntryIndex, failNode) ==
    IF node = failNode THEN [st EXCEPT !.err = TRUE]
    ELSE scanEntries(st, tree, tree[node].kids, parentEntryIndex, failNode)

scanEntries(st, tree, osEntries, parentEntryIndex, failNode) ==
    IF osEntries = <<>> \/ st.err THEN st
    ELSE
    Let(Head(osEntries), LAMBDA n :
    Let(st.entries[parentEntryIndex], LAMBDA parent :
    Let(Len(st.entries) + 1, LAMBDA newEntryIndex :
    Let(fileEntry(tree[n].name, n, Append(parent.isoPath, tree[n].name),
                  tree[n].kind = "dir", parent.level + 1, parentEntryIndex,
                  IF tree[n].kind = "dir" THEN 0 ELSE U32(tree[n].size),
                  IF tree[n].kind = "dir" THEN st.next ELSE 0), LAMBDA fe :
    Let([st.entries EXCEPT ![parentEntryIndex].children = Append(@, newEntryIndex)], LAMBDA added :
    Let(IF tree[n].kind = "dir"
        THEN scanDirectoryRecursive([st EXCEPT !.entries = Append(added, fe), !.next = st.next + 1],
                                    tree, n, newEntryIndex, failNode)
        ELSE IF tree[n].kind = "file"
        THEN [st EXCEPT !.entries = Append(added, fe)]
        ELSE st, LAMBDA st1 :
        scanEntries(st1, tree, Tail(osEntries), parentEntryIndex, failNode)))))))

\* ScanSourceDirectory: the table is cleared, the root entry appended, the tree walked
ScanResult(tree, failNode) ==
    scanDirectoryRecursive(
        [entries |-> <<fileEntry(ROOTNAME, 1, IsoRoot, TRUE, 0, 1, 0, 1)>>, next |-> 2, err |-> FALSE],
        tree, 1, 1, failNode)

(***************************************************************************)
(* Layout planner                                                          *)
(***************************************************************************)
sectorsToContainBytes(byteSize) ==
    IF byteSize = 0 THEN 0 ELSE U32(U32(byteSize) + SectorSize - 1) \div SectorSize

sectorsToContainFileBytes(fileDataSizeBytes) ==
    IF fileDataSizeBytes = 0 THEN 1
    ELSE DivU32(AddU32(fileDataSizeBytes, SectorSize - 1), SectorSize)

\* variant: a hidden entry is planned without a directory record
assignSanitizedNamesAndDrSizes_skipHidden(entries) ==
    [i \in 1..Len(entries) |->
        Let(entries[i], LAMBDA f :
        Let(f.pathTableDirNum = 1, LAMBDA isRootEntry :
        Let(IF f.isDir
            THEN IF isRootEntry THEN <<>> ELSE sanitizeISO9660Name(f.originalName, TRUE)
            ELSE sanitizeISO9660Name(f.originalName, FALSE) \o <<SEMICOLON, 49>>, LAMBDA iso9660Name :
        Let(IF f.isDir /\ isRootEntry THEN ROOTNAME ELSE truncateJolietName(f.originalName),
            LAMBDA jolietName :
            [f EXCEPT !.iso9660Name = iso9660Name,
                      !.jolietName = jolietName,
                      !.actualISO9660DrSize =
                          IF f.isHidden THEN 0 ELSE
                          calculateDirectoryRecordSize(getDRIdentifierBytes(iso9660Name, FALSE, isRootEntry)),
                      !.actualJolietDrSize =
                          IF f.isHidden THEN 0 ELSE
                          calculateDirectoryRecordSize(getDRIdentifierBytes(jolietName, TRUE, isRootEntry))]))))]

assignSanitizedNamesAndDrSizes(entries) ==
    [i \in 1..Len(entries) |->
        Let(entries[i], LAMBDA f :
        Let(f.pathTableDirNum = 1, LAMBDA isRootEntry :
        Let(IF f.isDir
            THEN IF isRootEntry THEN <<>> ELSE sanitizeISO9660Name(f.originalName, TRUE)
            ELSE sanitizeISO9660Name(f.originalName, FALSE) \o <<SEMICOLON, 49>>, LAMBDA iso9660Name :
        Let(IF f.isDir /\ isRootEntry THEN ROOTNAME ELSE truncateJolietName(f.originalName),
            LAMBDA jolietName :
            [f EXCEPT !.iso9660Name = iso9660Name,
                      !.jolietName = jolietName,
                      !.actualISO9660DrSize =
                          calculateDirectoryRecordSize(getDRIdentifierBytes(iso9660Name, FALSE, isRootEntry)),
                      !.actualJolietDrSize =
                          calculateDirectoryRecordSize(getDRIdentifierBytes(jolietName, TRUE, isRootEntry))]))))]

\* variant: the extent size is the sum of the record sizes, not rounded up
calculateSingleDirectoryExtentSizeBytes_noRound(entries, dirEntryIndex, isJoliet) ==
    LET dirEntry == entries[dirEntryIndex]
        isDirEntryRoot == (dirEntry.pathTableDirNum = 1)
    IN calculateDirectoryRecordSize(getDRIdentifierBytes(DOTNAME, isJoliet, isDirEntryRoot))
       + calculateDirectoryRecordSize(getDRIdentifierBytes(DOTDOTNAME, isJoliet, FALSE))
       + SumSeq([k \in 1..Len(dirEntry.children) |->
                   IF isJoliet THEN entries[dirEntry.children[k]].actualJolietDrSize
                   ELSE entries[dirEntry.children[k]].actualISO9660DrSize])

calculateSingleDirectoryExtentSizeBytes(entries, dirEntryIndex, isJoliet) ==
    Let(entries[dirEntryIndex], LAMBDA dirEntry :
    Let(dirEntry.pathTableDirNum = 1, LAMBDA isDirEntryRoot :
    Let(calculateDirectoryRecordSize(getDRIdentifierBytes(DOTNAME, isJoliet, isDirEntryRoot)),
        LAMBDA dotDRSize :
    Let(calculateDirectoryRecordSize(getDRIdentifierBytes(DOTDOTNAME, isJoliet, FALSE)),
        LAMBDA dotDotDRSize :
    Let(dotDRSize + dotDotDRSize +
            SumSeq([k \in 1..Len(dirEntry.children) |->
                      IF isJoliet THEN entries[dirEntry.children[k]].actualJolietDrSize
                      ELSE entries[dirEntry.children[k]].actualISO9660DrSize]), LAMBDA totalDRBytes :
    Let(U32(U32(totalDRBytes) + SectorSize - 1) \div SectorSize, LAMBDA numSectors :
        U32(numSectors * SectorSize)))))))

calculateAllDirectoryExtentSizes(entries) ==
    [i \in 1..Len(entries) |->
        IF entries[i].isDir
        THEN [entries[i] EXCEPT !.iso9660Size = calculateSingleDirectoryExtentSizeBytes(entries, i, FALSE),
                                !.jolietSize = calculateSingleDirectoryExtentSizeBytes(entries, i, TRUE)]
        ELSE entries[i]]

\* the identifier of a directory in a path table
PathTableIdentifier(fe, isJoliet) ==
    IF fe.pathTableDirNum = 1 THEN <<0>>
    ELSE IF isJoliet THEN encodeUTF16BE(fe.jolietName) ELSE fe.iso9660Name

calculatePathTableTotalBytes(entries, isJoliet) ==
    SumSeq([i \in 1..Len(entries) |->
        IF entries[i].isDir /\ entries[i].pathTableDirNum > 0
        THEN LET n == Len(PathTableIdentifier(entries[i], isJoliet))
             IN ptRecFixedPartSize + n + (IF n % 2 # 0 THEN 1 ELSE 0)
        ELSE 0])

assignPathTableSetLBAs(startLBA, numSectorsL, numSectorsM) ==
    [lbaL |-> startLBA, lbaM |-> U32(startLBA + numSectorsL),
     nextLBA |-> U32(U32(startLBA + numSectorsL) + numSectorsM)]

\* determinePathTableLBAs: the eight path-table LBAs and the next free LBA
determinePathTableLBAs(entries, startLBA) ==
    Let(sectorsToContainBytes(calculatePathTableTotalBytes(entries, FALSE)), LAMBDA numSecPvdL :
    Let(sectorsToContainBytes(calculatePathTableTotalBytes(entries, TRUE)), LAMBDA numSecSvdL :
    Let(assignPathTableSetLBAs(startLBA, numSecPvdL, numSecPvdL), LAMBDA p1 :
    Let(assignPathTableSetLBAs(p1.nextLBA, numSecSvdL, numSecSvdL), LAMBDA s1 :
    Let(assignPathTableSetLBAs(s1.nextLBA, numSecPvdL, numSecPvdL), LAMBDA p2 :
    Let(assignPathTableSetLBAs(p2.nextLBA, numSecSvdL, numSecSvdL), LAMBDA s2 :
        [lbaPvdPathTableL |-> p1.lbaL, lbaPvdPathTableM |-> p1.lbaM,
         lbaSvdPathTableL |-> s1.lbaL, lbaSvdPathTableM |-> s1.lbaM,
         lbaPvdPathTableL2 |-> p2.lbaL, lbaPvdPathTableM2 |-> p2.lbaM,
         lbaSvdPathTableL2 |-> s2.lbaL, lbaSvdPathTableM2 |-> s2.lbaM,
         nextLBA |-> s2.nextLBA]))))))

\* One pass of assignContentLBAs over entries i..Len(entries).
\* pass 1: primary directory extents; 2: file extents; 3: Joliet directory extents.
\* st = [entries, lba]
RECURSIVE assignPass(_, _, _)
assignPass(st, i, pass) ==
    IF i > Len(st.entries) THEN st
    ELSE Let(st.entries[i], LAMBDA f :
         IF pass = 1 /\ f.isDir
         THEN assignPass([entries |-> [st.entries EXCEPT ![i].iso9660Sector = st.lba],
                          lba |-> U32(st.lba + f.iso9660Size \div SectorSize)], i + 1, pass)
         ELSE IF pass = 2 /\ ~f.isDir
         THEN assignPass([entries |-> [st.entries EXCEPT ![i].iso9660Sector = st.lba,
                                                         ![i].jolietSector = st.lba],
                          lba |-> U32(st.lba + sectorsToContainFileBytes(f.iso9660Size))], i + 1, pass)
         ELSE IF pass = 3 /\ f.isDir
         THEN assignPass([entries |-> [st.entries EXCEPT ![i].jolietSector = st.lba],
                          lba |-> U32(st.lba + f.jolietSize \div SectorSize)], i + 1, pass)
         ELSE assignPass(st, i + 1, pass))

\* variant: the file extents are laid out from the same sector as the primary
\* directory extents
assignContentLBAs_filesOverDirs(entries, startLBA) ==
    Let(assignPass([entries |-> entries, lba |-> startLBA], 1, 1), LAMBDA d :
    Let(assignPass([entries |-> d.entries, lba |-> startLBA], 1, 2), LAMBDA f :
        assignPass([entries |-> f.entries, lba |-> d.lba + f.lba], 1, 3)))

assignContentLBAs(entries, startLBA) ==
    assignPass(assignPass(assignPass([entries |-> entries, lba |-> startLBA], 1, 1), 1, 2), 1, 3)

(***************************************************************************)
(* Path-table encoder                                                      *)
(***************************************************************************)
\* marshalPathTableRecord: size is len(record), identifierLen is record[0]
marshalPathTableRecord(LocationOfExtent, ParentDirectoryNumber, identifier, useBigEndian) ==
    LET identifierLen == Byte(Len(identifier))
        recordFinalLen == ptRecFixedPartSize + identifierLen + (IF Len(identifier) % 2 # 0 THEN 1 ELSE 0)
        copied == Take(identifier, recordFinalLen - ptRecFixedPartSize)
    IN [size |-> recordFinalLen,
        identifierLen |-> identifierLen,
        LocationOfExtent |-> LocationOfExtent,
        ParentDirectoryNumber |-> ParentDirectoryNumber,
        bigEndian |-> useBigEndian,
        identifier |-> copied,
        padding |-> recordFinalLen - ptRecFixedPartSize - Len(copied)]

\* the indices of the directories, in table order
pathTableDirs(entries) ==
    LET RECURSIVE pick(_)
        pick(i) == IF i > Len(entries) THEN <<>>
                   ELSE IF entries[i].isDir /\ entries[i].pathTableDirNum > 0
                        THEN <<i>> \o pick(i + 1) ELSE pick(i + 1)
    IN pick(1)

\* variant: the M-type comparator looks at the identifiers only
pathTableLess_byName(entries, dirI, dirJ, isJoliet, useBigEndian) ==
    IF useBigEndian
    THEN LexLess(PathTableIdentifier(dirI, isJoliet), PathTableIdentifier(dirJ, isJoliet))
    ELSE dirI.pathTableDirNum < dirJ.pathTableDirNum

\* the comparator createPathTable hands to sort.Slice
pathTableLess(entries, dirI, dirJ, isJoliet, useBigEndian) ==
    IF useBigEndian
    THEN IF dirI.parentIndex # dirJ.parentIndex
            /\ entries[dirI.parentIndex].pathTableDirNum # entries[dirJ.parentIndex].pathTableDirNum
         THEN entries[dirI.parentIndex].pathTableDirNum < entries[dirJ.parentIndex].pathTableDirNum
         ELSE LexLess(PathTableIdentifier(dirI, isJoliet), PathTableIdentifier(dirJ, isJoliet))
    ELSE dirI.pathTableDirNum < dirJ.pathTableDirNum

\* createPathTable: the records of the table, in order
createPathTable(entries, isJoliet, useBigEndian) ==
    Let(pathTableDirs(entries), LAMBDA dirs :
    Let(SortSlice(Len(dirs), [a, b \in 1..Len(dirs) |->
            pathTableLess(entries, entries[dirs[a]], entries[dirs[b]], isJoliet, useBigEndian)]),
        LAMBDA order :
        [k \in 1..Len(dirs) |->
            Let(entries[dirs[order[k]]], LAMBDA dir :
                marshalPathTableRecord(
                    IF isJoliet THEN dir.jolietSector ELSE dir.iso9660Sector,
                    IF dir.pathTableDirNum = 1 THEN 1 ELSE entries[dir.parentIndex].pathTableDirNum,
                    PathTableIdentifier(dir, isJoliet), useBigEndian))]))

\* len() of a generated table or listing
BytesLen(records) == SumSeq([k \in 1..Len(records) |-> records[k].size])

\* pregeneratePathTables: the four tables and whether the length check fails
pregeneratePathTables(entries) ==
    Let(createPathTable(entries, FALSE, FALSE), LAMBDA pl :
    Let(createPathTable(entries, FALSE, TRUE), LAMBDA pm :
    Let(createPathTable(entries, TRUE, FALSE), LAMBDA sl :
    Let(createPathTable(entries, TRUE, TRUE), LAMBDA sm :
    Let(calculatePathTableTotalBytes(entries, FALSE), LAMBDA expectedPvd :
    Let(calculatePathTableTotalBytes(entries, TRUE), LAMBDA expectedSvd :
        [pvdPathTableLData |-> pl, pvdPathTableMData |-> pm,
         svdPathTableLData |-> sl, svdPathTableMData |-> sm,
         err |-> \/ BytesLen(pl) # expectedPvd
                 \/ BytesLen(sl) # expectedSvd
                 \/ BytesLen(pm) # expectedPvd
                 \/ BytesLen(sm) # expectedSvd]))))))

\* calculateLayout: every field of the builder the planner sets
calculateLayout(entries0) ==
    Let(calculateAllDirectoryExtentSizes(assignSanitizedNamesAndDrSizes(entries0)), LAMBDA sized :
    Let(determinePathTableLBAs(sized, SystemAreaNumSectors + 3), LAMBDA ptLBAs :
    Let(assignContentLBAs(sized, ptLBAs.nextLBA), LAMBDA content :
    Let(pregeneratePathTables(content.entries), LAMBDA generated :
        [fileEntries |-> content.entries,
         totalSectors |-> U32(content.lba + 1),
         pt |-> [x \in DOMAIN ptLBAs \ {"nextLBA"} |-> ptLBAs[x]],
         tables |-> [x \in DOMAIN generated \ {"err"} |-> generated[x]],
         pvdRootDirExtentSize |-> sized[1].iso9660Size,
         svdRootDirExtentSize |-> sized[1].jolietSize,
         err |-> generated.err]))))

(***************************************************************************)
(* Directory listings                                                      *)
(***************************************************************************)
\* createDirectoryListing: the records of the listing in order, each with the
\* entry it describes (target) and its role, and whether a length check
\* panicked (CriticalDRLenMismatch).
createDirectoryListing(entries, dirEntryIndex, isJoliet) ==
    Let(entries[dirEntryIndex], LAMBDA currentDir :
    Let(entries[currentDir.parentIndex], LAMBDA parentDir :
    Let(createDirectoryRecordBytes(
            IF isJoliet THEN currentDir.jolietSector ELSE currentDir.iso9660Sector,
            IF isJoliet THEN currentDir.jolietSize ELSE currentDir.iso9660Size,
            DOTNAME, currentDir, isJoliet), LAMBDA dotDR :
    Let(calculateDirectoryRecordSize(
            getDRIdentifierBytes(DOTNAME, isJoliet, currentDir.pathTableDirNum = 1)),
        LAMBDA expectedDotDRLen :
    Let(createDirectoryRecordBytes(
            IF isJoliet THEN parentDir.jolietSector ELSE parentDir.iso9660Sector,
            IF isJoliet THEN parentDir.jolietSize ELSE parentDir.iso9660Size,
            DOTDOTNAME, parentDir, isJoliet), LAMBDA dotDotDR :
    Let(calculateDirectoryRecordSize(getDRIdentifierBytes(DOTDOTNAME, isJoliet, FALSE)),
        LAMBDA expectedDotDotDRLen :
    Let(currentDir.children, LAMBDA kids :
    Let(SortSlice(Len(kids), [a, b \in 1..Len(kids) |->
            IF isJoliet THEN LexLess(entries[kids[a]].jolietName, entries[kids[b]].jolietName)
            ELSE LexLess(entries[kids[a]].iso9660Name, entries[kids[b]].iso9660Name)]), LAMBDA order :
    Let([k \in 1..Len(kids) |->
            Let(entries[kids[order[k]]], LAMBDA childEntry :
                [dr |-> createDirectoryRecordBytes(
                            IF childEntry.isDir /\ isJoliet THEN childEntry.jolietSector
                            ELSE childEntry.iso9660Sector,
                            IF childEntry.isDir /\ isJoliet THEN childEntry.jolietSize
                            ELSE childEntry.iso9660Size,
                            IF isJoliet THEN childEntry.jolietName ELSE childEntry.iso9660Name,
                            childEntry, isJoliet),
                 target |-> kids[order[k]],
                 role |-> "child",
                 expectedChildDRLen |-> IF isJoliet THEN childEntry.actualJolietDrSize
                                        ELSE childEntry.actualISO9660DrSize])], LAMBDA childDRs :
        [records |-> <<[dr |-> dotDR, target |-> dirEntryIndex, role |-> "dot"],
                       [dr |-> dotDotDR, target |-> currentDir.parentIndex, role |-> "dotdot"]>>
                     \o [k \in 1..Len(kids) |->
                           [dr |-> childDRs[k].dr, target |-> childDRs[k].target, role |-> "child"]],
         panic |-> \/ dotDR.size # expectedDotDRLen
                   \/ dotDotDR.size # expectedDotDotDRLen
                   \/ \E k \in 1..Len(kids) : childDRs[k].dr.size # childDRs[k].expectedChildDRLen])))))))))

ListingBytesLen(listing) == SumSeq([k \in 1..Len(listing.records) |-> listing.records[k].dr.size])

(***************************************************************************)
(* Image writer                                                            *)
(*                                                                         *)
(* The writer state is [sectors, log, err].  sectors is the output file,   *)
(* one cell per 2048-byte sector: [p |-> payload, k |-> n] holds bytes     *)
(* n*2048 .. n*2048+2047 of the payload followed by zero padding.  log is  *)
(* the sequence of regions written.  err is "nil", an error, or "panic".   *)
(***************************************************************************)
ZeroCell == [p |-> [kind |-> "zero"], k |-> 0]

writeAtSectorAndPad(ws, payload, dataLen, sectorNum, totalAllocatedBytesOnDisk) ==
    IF ws.err # "nil" THEN ws
    ELSE IF totalAllocatedBytesOnDisk > 0 /\ totalAllocatedBytesOnDisk % SectorSize # 0
    THEN [ws EXCEPT !.err = "panic"]
    ELSE IF GreaterBytes(dataLen, totalAllocatedBytesOnDisk)
    THEN [ws EXCEPT !.err = "data length > allocated"]
    ELSE Let(totalAllocatedBytesOnDisk \div SectorSize, LAMBDA n :
         Let(IF n > 0 /\ sectorNum + n > Len(ws.sectors) THEN sectorNum + n ELSE Len(ws.sectors),
             LAMBDA newLen :
             [ws EXCEPT
                !.sectors = [x \in 1..newLen |->
                                IF x - 1 >= sectorNum /\ x - 1 < sectorNum + n
                                THEN [p |-> payload, k |-> x - 1 - sectorNum]
                                ELSE IF x <= Len(ws.sectors) THEN ws.sectors[x] ELSE ZeroCell],
                !.log = Append(@, [kind |-> payload.kind, lba |-> sectorNum, sectors |-> n])]))

\* an injected I/O failure of step: the step returns its error before writing
FailIf(ws, step) ==
    IF ws.err = "nil" THEN [ws EXCEPT !.err = step] ELSE ws

writeSystemArea(ws) ==
    writeAtSectorAndPad(ws, [kind |-> "system"], 0, 0, SystemAreaNumSectors * SectorSize)

\* createPrimaryVolumeDescriptor / createJolietVolumeDescriptor: the fields of
\* the descriptor that depend on the plan (identifiers and timestamps are not
\* modelled)
createVolumeDescriptor(b, isJoliet) ==
    Let(b.fileEntries[1], LAMBDA rootEntry :
        [kind |-> IF isJoliet THEN "svd" ELSE "pvd",
         VolumeSpaceSize |-> b.totalSectors,
         EscapeSequences |-> IF isJoliet THEN b.options.JolietEscapeSequence \o Rep(0, 29) ELSE Rep(0, 32),
         LogicalBlockSize |-> SectorSize,
         PathTableSizeBytes |->
             U32(BytesLen(IF isJoliet THEN b.tables.svdPathTableLData ELSE b.tables.pvdPathTableLData)),
         LPathTableLocation |-> IF isJoliet THEN b.pt.lbaSvdPathTableL ELSE b.pt.lbaPvdPathTableL,
         OptionalLPathTableLocation |-> IF isJoliet THEN b.pt.lbaSvdPathTableL2 ELSE b.pt.lbaPvdPathTableL2,
         MPathTableLocation |-> IF isJoliet THEN b.pt.lbaSvdPathTableM ELSE b.pt.lbaPvdPathTableM,
         OptionalMPathTableLocation |-> IF isJoliet THEN b.pt.lbaSvdPathTableM2 ELSE b.pt.lbaPvdPathTableM2,
         RootDirectoryRecord |->
             createDirectoryRecordBytes(
                 IF isJoliet THEN rootEntry.jolietSector ELSE rootEntry.iso9660Sector,
                 IF isJoliet THEN b.svdRootDirExtentSize ELSE b.pvdRootDirExtentSize,
                 IF isJoliet THEN rootEntry.jolietName ELSE rootEntry.iso9660Name,
                 rootEntry, isJoliet)])

writeVolumeDescriptors(ws, b) ==
    Let(createVolumeDescriptor(b, FALSE), LAMBDA pvd :
    Let(createVolumeDescriptor(b, TRUE), LAMBDA svd :
    Let(IF pvd.RootDirectoryRecord.size # 34 \/ svd.RootDirectoryRecord.size # 34
        THEN [ws EXCEPT !.err = "panic"] ELSE ws, LAMBDA w0 :
        writeAtSectorAndPad(
            writeAtSectorAndPad(
                writeAtSectorAndPad(w0, pvd, SectorSize, SystemAreaNumSectors, SectorSize),
                svd, SectorSize, SystemAreaNumSectors + 1, SectorSize),
            [kind |-> "terminator"], SectorSize, SystemAreaNumSectors + 2, SectorSize))))

PathTablePayload(name, records) == [kind |-> "pathtable", table |-> name, records |-> records]

\* one table written at one of its two placements
writePathTable(ws, name, data, lba) ==
    writeAtSectorAndPad(ws, PathTablePayload(name, data), BytesLen(data), lba,
                        U32(sectorsToContainBytes(BytesLen(data)) * SectorSize))

writeAllPathTables(ws, b) ==
    writePathTable(writePathTable(writePathTable(writePathTable(
    writePathTable(writePathTable(writePathTable(writePathTable(ws,
        "pvdL", b.tables.pvdPathTableLData, b.pt.lbaPvdPathTableL),
        "pvdL", b.tables.pvdPathTableLData, b.pt.lbaPvdPathTableL2),
        "pvdM", b.tables.pvdPathTableMData, b.pt.lbaPvdPathTableM),
        "pvdM", b.tables.pvdPathTableMData, b.pt.lbaPvdPathTableM2),
        "svdL", b.tables.svdPathTableLData, b.pt.lbaSvdPathTableL),
        "svdL", b.tables.svdPathTableLData, b.pt.lbaSvdPathTableL2),
        "svdM", b.tables.svdPathTableMData, b.pt.lbaSvdPathTableM),
        "svdM", b.tables.svdPathTableMData, b.pt.lbaSvdPathTableM2)

ListingPayload(dirEntryIndex, isJoliet, listing) ==
    [kind |-> IF isJoliet THEN "jolietdir" ELSE "isodir", dir |-> dirEntryIndex, records |-> listing.records]

\* the listing of directory i in one namespace, generated and written
writeDirectoryListing(ws, b, i, isJoliet) ==
    IF ws.err # "nil" THEN ws
    ELSE
    Let(createDirectoryListing(b.fileEntries, i, isJoliet), LAMBDA listing :
    Let(IF isJoliet THEN b.fileEntries[i].jolietSize ELSE b.fileEntries[i].iso9660Size, LAMBDA allocated :
    Let(ListingBytesLen(listing), LAMBDA generated :
        IF listing.panic THEN [ws EXCEPT !.err = "panic"]
        ELSE IF U32(generated) > allocated THEN [ws EXCEPT !.err = "gen_len > alloc_size"]
        ELSE writeAtSectorAndPad(ws, ListingPayload(i, isJoliet, listing), generated,
                                 IF isJoliet THEN b.fileEntries[i].jolietSector
                                 ELSE b.fileEntries[i].iso9660Sector,
                                 allocated))))

\* variant: the Joliet listing of a directory is written before its primary one
RECURSIVE writeAllDirectoryContents_jolietFirst(_, _, _)
writeAllDirectoryContents_jolietFirst(ws, b, i) ==
    IF i > Len(b.fileEntries) \/ ws.err # "nil" THEN ws
    ELSE IF ~b.fileEntries[i].isDir THEN writeAllDirectoryContents_jolietFirst(ws, b, i + 1)
    ELSE writeAllDirectoryContents_jolietFirst(
             writeDirectoryListing(writeDirectoryListing(ws, b, i, TRUE), b, i, FALSE), b, i + 1)

\* writeAllDirectoryContents, from entry i on
RECURSIVE writeAllDirectoryContents(_, _, _)
writeAllDirectoryContents(ws, b, i) ==
    IF i > Len(b.fileEntries) \/ ws.err # "nil" THEN ws
    ELSE IF ~b.fileEntries[i].isDir THEN writeAllDirectoryContents(ws, b, i + 1)
    ELSE writeAllDirectoryContents(
             writeDirectoryListing(writeDirectoryListing(ws, b, i, FALSE), b, i, TRUE), b, i + 1)

\* os.ReadFile(f.diskPath): the source file's content, identified by its node
FilePayload(tree, node) == [kind |-> "file", source |-> node, len |-> tree[node].size]

\* writeAllFileData, from entry i on
RECURSIVE writeAllFileData(_, _, _, _)
writeAllFileData(ws, b, tree, i) ==
    IF i > Len(b.fileEntries) \/ ws.err # "nil" THEN ws
    ELSE IF b.fileEntries[i].isDir THEN writeAllFileData(ws, b, tree, i + 1)
    ELSE
    Let(b.fileEntries[i], LAMBDA f :
    Let(FilePayload(tree, f.diskPath), LAMBDA fileDataBytes :
        writeAllFileData(
            IF U32(fileDataBytes.len) # f.iso9660Size
            THEN [ws EXCEPT !.err = "size mismatch"]
            ELSE writeAtSectorAndPad(ws, fileDataBytes, fileDataBytes.len, f.iso9660Sector,
                                     MulSectorSizeU32(sectorsToContainFileBytes(f.iso9660Size))),
            b, tree, i + 1)))

\* variant: the image is left as long as the last write made it
finalizeImageSize_noExtend(ws, b) == ws

\* finalizeImageSize: the file is padded with zeros or truncated to totalSectors
finalizeImageSize(ws, b) ==
    IF ws.err # "nil" THEN ws
    ELSE [ws EXCEPT !.sectors = [x \in 1..b.totalSectors |->
                                    IF x <= Len(ws.sectors) THEN ws.sectors[x] ELSE ZeroCell]]

(***************************************************************************)
(* Hidden marking                                                          *)
(***************************************************************************)
\* variant: only the first entry with the name is marked
markOne_firstMatch(st, name) ==
    IF st.panic THEN st
    ELSE IF name = <<>> THEN [st EXCEPT !.errors = Append(@, [name |-> name, why |-> "empty"])]
    ELSE IF name = DOTNAME \/ name = DOTDOTNAME
    THEN [st EXCEPT !.errors = Append(@, [name |-> name, why |-> "navigational"])]
    ELSE IF Len(st.entries) = 0 THEN [st EXCEPT !.panic = TRUE]
    ELSE IF st.entries[1].originalName = name
    THEN [st EXCEPT !.errors = Append(@, [name |-> name, why |-> "root"])]
    ELSE Let({i \in 2..Len(st.entries) : st.entries[i].originalName = name}, LAMBDA matches :
             IF matches = {}
             THEN [st EXCEPT !.errors = Append(@, [name |-> name, why |-> "not found"])]
             ELSE [st EXCEPT !.entries[CHOOSE i \in matches : \A j \in matches : i <= j].isHidden = TRUE])

\* One iteration of the loop of MarkFileNamesAsHidden over the names.
\* st = [entries, errors, panic]; errors collects the names reported.
\* Indexing fileEntries[0] of an empty table is a run-time panic.
markOne(st, name) ==
    IF st.panic THEN st
    ELSE IF name = <<>> THEN [st EXCEPT !.errors = Append(@, [name |-> name, why |-> "empty"])]
    ELSE IF name = DOTNAME \/ name = DOTDOTNAME
    THEN [st EXCEPT !.errors = Append(@, [name |-> name, why |-> "navigational"])]
    ELSE IF Len(st.entries) = 0 THEN [st EXCEPT !.panic = TRUE]
    ELSE IF st.entries[1].originalName = name
    THEN [st EXCEPT !.errors = Append(@, [name |-> name, why |-> "root"])]
    ELSE Let({i \in 1..Len(st.entries) :
                 /\ ~(i = 1 /\ st.entries[i].originalName = ROOTNAME)
                 /\ st.entries[i].originalName = name}, LAMBDA matches :
             [st EXCEPT !.entries = [i \in 1..Len(st.entries) |->
                                       IF i \in matches THEN [st.entries[i] EXCEPT !.isHidden = TRUE]
                                       ELSE st.entries[i]],
                        !.errors = IF matches = {} THEN Append(@, [name |-> name, why |-> "not found"])
                                   ELSE @])

RECURSIVE markLoop(_, _)
markLoop(st, names) ==
    IF names = <<>> THEN st ELSE markLoop(markOne(st, Head(names)), Tail(names))

\* variant: the loop ends at the first name that is reported
MarkResult_stopAtReported(entries, fileNamesToHide) ==
    Let([k \in 1..Len(fileNamesToHide) |->
            markLoop([entries |-> entries, errors |-> <<>>, panic |-> FALSE],
                     SubSeq(fileNamesToHide, 1, k))], LAMBDA prefix :
        IF \E k \in 1..Len(fileNamesToHide) : prefix[k].errors # <<>>
        THEN prefix[CHOOSE k \in 1..Len(fileNamesToHide) :
                        prefix[k].errors # <<>> /\ \A j \in 1..(k - 1) : prefix[j].errors = <<>>]
        ELSE markLoop([entries |-> entries, errors |-> <<>>, panic |-> FALSE], fileNamesToHide))

MarkResult(entries, fileNamesToHide) ==
    markLoop([entries |-> entries, errors |-> <<>>, panic |-> FALSE], fileNamesToHide)

(***************************************************************************)
(* Source trees and arguments the model explores                           *)
(***************************************************************************)
MaxHideArgs == 2
WideCount == 7

n_docs == <<100, 111, 99, 115>>
n_secret_bin == <<115, 101, 99, 114, 101, 116, 46, 98, 105, 110>>
n_sigma_md == <<931, 46, 109, 100>>
n_B == <<66>>
n_a == <<97>>
n_0 == <<48>>
n_lnk == <<108, 110, 107>>
n_report_txt == <<114, 101, 112, 111, 114, 116, 46, 116, 120, 116>>
n_REPORT_TXT == <<82, 69, 80, 79, 82, 84, 46, 84, 88, 84>>
n_nope == <<110, 111, 112, 101>>
\* 64 scalars outside the BMP (U+1F600)
n_astral == Rep(128512, JolietMaxFilenameChars)
\* 65 letters: one more than truncateJolietName keeps
n_long == Rep(122, JolietMaxFilenameChars + 1)
\* a letter and 62 scalars outside the BMP: 125 code units, 250 identifier bytes
n_wide(c) == <<c>> \o Rep(128512, JolietMaxFilenameChars - 2)

Dir(name, kids) == [name |-> name, kind |-> "dir", size |-> 0, kids |-> kids]
File(name, size) == [name |-> name, kind |-> "file", size |-> size, kids |-> <<>>]
Other(name) == [name |-> name, kind |-> "other", size |-> 0, kids |-> <<>>]

TreeEmpty == <<Dir(<<>>, <<>>)>>
TreeSecret == <<Dir(<<>>, <<2, 5>>), Dir(n_docs, <<3, 4>>), File(n_secret_bin, 2049),
                File(n_sigma_md, 0), File(n_secret_bin, 2048)>>
TreeDirs == <<Dir(<<>>, <<2, 4, 5>>), Dir(n_B, <<3>>), Dir(n_0, <<>>), Dir(n_a, <<>>), Other(n_lnk)>>
TreeWide == <<Dir(<<>>, [k \in 1..WideCount |-> k + 1])>> \o [k \in 1..WideCount |-> File(n_wide(96 + k), 1)]
TreeAstral == <<Dir(<<>>, <<2>>), File(n_astral, 3)>>
TreeAstralDir == <<Dir(<<>>, <<2>>), Dir(n_astral, <<>>)>>
TreeCollide == <<Dir(<<>>, <<2, 3, 4>>), File(n_REPORT_TXT, 1), File(n_report_txt, 2), File(n_long, 0)>>

TreePool == {TreeEmpty, TreeSecret, TreeDirs, TreeWide, TreeAstral, TreeAstralDir, TreeCollide}

HideNamePool == {<<>>, DOTNAME, DOTDOTNAME, ROOTNAME, n_secret_bin, n_B, n_nope}

HideArgs == UNION {[1..n -> HideNamePool] : n \in 0..MaxHideArgs}

DefaultEscape == <<37, 47, 69>>
OptionsPool == {[JolietEscapeSequence |-> DefaultEscape], [JolietEscapeSequence |-> <<0, 0, 0>>]}

\* the source directories and options a builder is constructed with: every
\* tree with DefaultOptions(), and one tree with a zero-valued Options
Inputs == {<<t, [JolietEscapeSequence |-> DefaultEscape]>> : t \in TreePool}
          \cup {<<TreeEmpty, o>> : o \in OptionsPool}

BuildSteps == {"create", "system area", "volume descriptors", "path tables",
               "directory contents", "file data", "finalize"}

(***************************************************************************)
(* The builder as a state machine                                          *)
(***************************************************************************)
VARIABLES
    tree,                  \* the source directory on disk
    options,               \* ISOBuilder.options
    fileEntries,           \* ISOBuilder.fileEntries
    totalSectors,          \* ISOBuilder.totalSectors
    pt,                    \* the eight path-table LBAs of the builder
    tables,                \* the four pre-generated path tables
    pvdRootDirExtentSize,
    svdRootDirExtentSize,
    output,                \* the output file: [exists, sectors, log, open]
    ret,                   \* the last call and the error it returned: [op, err]
    planned,               \* calculateLayout has run on the current table
    crashed                \* a panic ended the process

vars == <<tree, options, fileEntries, totalSectors, pt, tables, pvdRootDirExtentSize,
          svdRootDirExtentSize, output, ret, planned, crashed>>

NoTables == [pvdPathTableLData |-> <<>>, pvdPathTableMData |-> <<>>,
             svdPathTableLData |-> <<>>, svdPathTableMData |-> <<>>]
NoLBAs == [lbaPvdPathTableL |-> 0, lbaPvdPathTableM |-> 0, lbaSvdPathTableL |-> 0, lbaSvdPathTableM |-> 0,
           lbaPvdPathTableL2 |-> 0, lbaPvdPathTableM2 |-> 0, lbaSvdPathTableL2 |-> 0, lbaSvdPathTableM2 |-> 0]

\* NewBuilder: only sourceDir, outputFilename and options are set
Init ==
    /\ \E input \in Inputs : tree = input[1] /\ options = input[2]
    /\ fileEntries = <<>>
    /\ totalSectors = 0
    /\ pt = NoLBAs
    /\ tables = NoTables
    /\ pvdRootDirExtentSize = 0
    /\ svdRootDirExtentSize = 0
    /\ output = [exists |-> FALSE, sectors |-> <<>>, log |-> <<>>, open |-> FALSE]
    /\ ret = [op |-> "NewBuilder", err |-> "nil"]
    /\ planned = FALSE
    /\ crashed = FALSE

DirNodes(t) == {n \in 1..Len(t) : t[n].kind = "dir"}

Returned(op, err) == [op |-> op, err |-> err]

\* ScanSourceDirectory; failNode is the directory whose os.ReadDir fails (0: none)
ScanSourceDirectory(failNode) ==
    /\ ~crashed
    /\ \E r \in {ScanResult(tree, failNode)} :
          /\ fileEntries' = r.entries
          /\ ret' = Returned("ScanSourceDirectory", IF r.err THEN "reading directory" ELSE "nil")
    /\ planned' = FALSE
    /\ UNCHANGED <<tree, options, totalSectors, pt, tables, pvdRootDirExtentSize,
                   svdRootDirExtentSize, output, crashed>>

\* MarkFileNamesAsHidden(fileNamesToHide...): a non-nil error is returned when
\* any name was reported
MarkFileNamesAsHidden(fileNamesToHide) ==
    /\ ~crashed
    /\ \E r \in {IF Len(fileNamesToHide) = 0
                  THEN [entries |-> fileEntries, errors |-> <<>>, panic |-> FALSE]
                  ELSE MarkResult(fileEntries, fileNamesToHide)} :
          /\ fileEntries' = r.entries
          /\ crashed' = r.panic
          /\ ret' = Returned("MarkFileNamesAsHidden",
                             IF r.panic THEN "panic" ELSE IF r.errors # <<>> THEN "issues" ELSE "nil")
    /\ UNCHANGED <<tree, options, totalSectors, pt, tables, pvdRootDirExtentSize,
                   svdRootDirExtentSize, output, planned>>

\* The write steps of Build on the freshly created output file, no I/O
\* failing: the writer state before each step and after the last one.
WriteStages(b) ==
    Let([sectors |-> <<>>, log |-> <<>>, err |-> "nil"], LAMBDA w0 :
    Let(writeSystemArea(w0), LAMBDA w1 :
    Let(writeVolumeDescriptors(w1, b), LAMBDA w2 :
    Let(writeAllPathTables(w2, b), LAMBDA w3 :
    Let(writeAllDirectoryContents(w3, b, 1), LAMBDA w4 :
    Let(writeAllFileData(w4, b, tree, 1), LAMBDA w5 :
        [none |-> finalizeImageSize(w5, b),
         before |-> [step \in BuildSteps \ {"create"} |->
                        CASE step = "system area" -> w0
                          [] step = "volume descriptors" -> w1
                          [] step = "path tables" -> w2
                          [] step = "directory contents" -> w3
                          [] step = "file data" -> w4
                          [] step = "finalize" -> w5]]))))))

\* variant: the steps after the failing one are executed all the same
WriteImage_continues(stages, failStep) ==
    IF failStep = "none" THEN stages.none ELSE FailIf(stages.none, failStep)

\* Build's writes when the I/O of failStep fails ("none": no I/O fails): the
\* failing step returns its error before writing and Build returns it
WriteImage(stages, failStep) ==
    IF failStep = "none" THEN stages.none ELSE FailIf(stages.before[failStep], failStep)

\* the builder as the planner leaves it
Planned(lay) ==
    [fileEntries |-> lay.fileEntries, totalSectors |-> lay.totalSectors, pt |-> lay.pt,
     tables |-> lay.tables, pvdRootDirExtentSize |-> lay.pvdRootDirExtentSize,
     svdRootDirExtentSize |-> lay.svdRootDirExtentSize, options |-> options]

\* variant: os.Create runs at the start of Build
BuildOutput_createsFirst(out, err, w) ==
    IF err = "create" THEN out
    ELSE [exists |-> TRUE, sectors |-> w.sectors, log |-> w.log, open |-> FALSE]

\* The file at the output path when Build returns err.  os.Create, which
\* creates or truncates the file, is reached only after the scan and
\* calculateLayout returned nil; w is the writer state Build ends with.
BuildOutput(out, err, w) ==
    IF err \in {"scanning source directory", "calculating ISO layout", "create"} THEN out
    ELSE [exists |-> TRUE, sectors |-> w.sectors, log |-> w.log, open |-> FALSE]

\* Build: scan when the table is not populated, plan, create the output file,
\* write.  failNode is the directory whose os.ReadDir fails in the scan Build
\* runs itself; failStep is the step of Build whose I/O fails ("none": none).
\* variant: Build scans the source whatever the table holds
needScan_always(entries) == TRUE

\* the condition under which Build calls ScanSourceDirectory
needScan(entries) == Len(entries) = 0 \/ entries[1].isoPath # IsoRoot

Build(failNode) ==
    /\ ~crashed
    /\ LET scanFirst == needScan(fileEntries)
       IN /\ (~scanFirst => failNode = 0)
          /\ \E scan \in {IF scanFirst THEN ScanResult(tree, failNode)
                          ELSE [entries |-> fileEntries, next |-> 0, err |-> FALSE]} :
             IF scan.err
             THEN /\ fileEntries' = scan.entries
                  /\ planned' = FALSE
                  /\ ret' = Returned("Build", "scanning source directory")
                  /\ output' = BuildOutput(output, "scanning source directory",
                                           [sectors |-> <<>>, log |-> <<>>])
                  /\ UNCHANGED <<totalSectors, pt, tables, pvdRootDirExtentSize,
                                 svdRootDirExtentSize, crashed>>
             ELSE \E lay \in {calculateLayout(scan.entries)} :
                  /\ fileEntries' = lay.fileEntries
                  /\ totalSectors' = lay.totalSectors
                  /\ pt' = lay.pt
                  /\ tables' = lay.tables
                  /\ pvdRootDirExtentSize' = lay.pvdRootDirExtentSize
                  /\ svdRootDirExtentSize' = lay.svdRootDirExtentSize
                  /\ planned' = TRUE
                  /\ IF lay.err
                     THEN /\ ret' = Returned("Build", "calculating ISO layout")
                          /\ output' = BuildOutput(output, "calculating ISO layout",
                                                   [sectors |-> <<>>, log |-> <<>>])
                          /\ UNCHANGED crashed
                     ELSE \E stages \in {WriteStages(Planned(lay))} :
                          \E failStep \in {"none"} \cup BuildSteps :
                          IF failStep = "create"
                          THEN /\ ret' = Returned("Build", "create")
                               /\ output' = BuildOutput(output, "create",
                                                        [sectors |-> <<>>, log |-> <<>>])
                               /\ UNCHANGED crashed
                          ELSE \E w \in {WriteImage(stages, failStep)} :
                               /\ w.err # "nil" => failStep \in {"none", w.err}
                               /\ output' = BuildOutput(output, w.err, w)
                               /\ ret' = Returned("Build", w.err)
                               /\ crashed' = (w.err = "panic")
    /\ UNCHANGED <<tree, options>>

Next ==
    \/ \E failNode \in {0} \cup DirNodes(tree) : ScanSourceDirectory(failNode)
    \/ \E fileNamesToHide \in HideArgs : MarkFileNamesAsHidden(fileNamesToHide)
    \/ \E failNode \in {0} \cup DirNodes(tree) : Build(failNode)

Spec == Init /\ [][Next]_vars

(***************************************************************************)
(* The builder run on source directories that differ in one name: the     *)
(* source directory holds a directory with the name and, inside it, a      *)
(* regular file with the same name.                                        *)
(***************************************************************************)
MaxPieces == 3

\* ".", "-", ".tx", "Z1_" and U+00E9, nine times "b"
Pieces == {<<DOT>>, <<45>>, <<DOT, 116, 120>>, <<90, 49, 95, 233>>, Rep(98, 9)}

PieceNames == {Flatten(ps) : ps \in UNION {[1..n -> Pieces] : n \in 1..MaxPieces}}
              \ {DOTNAME, DOTDOTNAME}

\* names around JolietMaxFilenameChars runes, and 33 scalars outside the BMP
LongNames == {Rep(c, n) : c \in {97, 128512},
                          n \in {33, JolietMaxFilenameChars - 1, JolietMaxFilenameChars,
                                 JolietMaxFilenameChars + 1, JolietMaxFilenameChars + 2}}

NamePool == PieceNames \cup LongNames

TreeNamed(name) == <<Dir(<<>>, <<2>>), Dir(name, <<3>>), File(name, 1)>>

\* two regular files side by side: U+FF21 (one code unit, FF21) and U+1F600
\* (a surrogate pair, D83D DE00), in the order os.ReadDir returns them
TreeSurrogate == <<Dir(<<>>, <<2, 3>>), File(<<65313>>, 1), File(<<128512>>, 1)>>

NameTrees == {TreeNamed(name) : name \in NamePool} \cup {TreeCollide, TreeSurrogate}

InitNames ==
    /\ tree \in NameTrees
    /\ options = [JolietEscapeSequence |-> DefaultEscape]
    /\ fileEntries = <<>>
    /\ totalSectors = 0
    /\ pt = NoLBAs
    /\ tables = NoTables
    /\ pvdRootDirExtentSize = 0
    /\ svdRootDirExtentSize = 0
    /\ output = [exists |-> FALSE, sectors |-> <<>>, log |-> <<>>, open |-> FALSE]
    /\ ret = [op |-> "NewBuilder", err |-> "nil"]
    /\ planned = FALSE
    /\ crashed = FALSE

NextNames ==
    \/ ScanSourceDirectory(0)
    \/ Build(0)

SpecNames == InitNames /\ [][NextNames]_vars

(***************************************************************************)
(* The builder run on source directories that differ in the sizes of their *)
(* regular files.                                                          *)
(***************************************************************************)
MaxSizedFiles == 2

\* 0, 1, one sector, one more, two sectors and one more, 2^32 - 2047 and
\* 2^32 - 1 bytes
SizePool == {0, 1, SectorSize, SectorSize + 1, 2 * SectorSize + 1, 0 - (SectorSize - 1), 0 - 1}

TreeSized(sizes) ==
    <<Dir(<<>>, [k \in 1..Len(sizes) |-> k + 1])>> \o [k \in 1..Len(sizes) |-> File(<<96 + k>>, sizes[k])]

SizeTrees == {TreeSized(sizes) : sizes \in UNION {[1..n -> SizePool] : n \in 1..MaxSizedFiles}}

InitSizes ==
    /\ tree \in SizeTrees
    /\ options = [JolietEscapeSequence |-> DefaultEscape]
    /\ fileEntries = <<>>
    /\ totalSectors = 0
    /\ pt = NoLBAs
    /\ tables = NoTables
    /\ pvdRootDirExtentSize = 0
    /\ svdRootDirExtentSize = 0
    /\ output = [exists |-> FALSE, sectors |-> <<>>, log |-> <<>>, open |-> FALSE]
    /\ ret = [op |-> "NewBuilder", err |-> "nil"]
    /\ planned = FALSE
    /\ crashed = FALSE

NextSizes ==
    \/ ScanSourceDirectory(0)
    \/ Build(0)

SpecSizes == InitSizes /\ [][NextSizes]_vars

(***************************************************************************)
(* The builder run with a file already present at the output path, the     *)
(* directories of the source failing to be read at any point.              *)
(***************************************************************************)
\* the content of the file at the output path before the builder runs
OldImage == <<[p |-> [kind |-> "old"], k |-> 0]>>

ExistingTrees == {TreeEmpty, TreeSecret, TreeDirs, TreeAstralDir}

InitExisting ==
    /\ tree \in ExistingTrees
    /\ options = [JolietEscapeSequence |-> DefaultEscape]
    /\ fileEntries = <<>>
    /\ totalSectors = 0
    /\ pt = NoLBAs
    /\ tables = NoTables
    /\ pvdRootDirExtentSize = 0
    /\ svdRootDirExtentSize = 0
    /\ output = [exists |-> TRUE, sectors |-> OldImage, log |-> <<>>, open |-> FALSE]
    /\ ret = [op |-> "NewBuilder", err |-> "nil"]
    /\ planned = FALSE
    /\ crashed = FALSE

NextExisting ==
    \/ \E failNode \in {0} \cup DirNodes(tree) : ScanSourceDirectory(failNode)
    \/ \E failNode \in {0} \cup DirNodes(tree) : Build(failNode)

SpecExisting == InitExisting /\ [][NextExisting]_vars

(***************************************************************************)
(* Properties                                                              *)
(***************************************************************************)
CeilDiv(a, b) == (a + b - 1) \div b

Files == {i \in 1..Len(fileEntries) : ~fileEntries[i].isDir}
Dirs == {i \in 1..Len(fileEntries) : fileEntries[i].isDir}

BuildSucceeded == ret.op = "Build" /\ ret.err = "nil"

\* what the image holds at the extent of directory d in a namespace
ListingInImage(d, isJoliet) ==
    output.sectors[(IF isJoliet THEN fileEntries[d].jolietSector ELSE fileEntries[d].iso9660Sector) + 1].p

\* the positions of the records of entry i in a listing
RecordsOf(i, listing) == {k \in 1..Len(listing.records) :
                             listing.records[k].target = i /\ listing.records[k].role = "child"}

\* C1: after a successful Build, every regular file's extent in the image
\* holds the source file's bytes in order, and the file has exactly one record
\* in its parent's primary listing and one in its parent's Joliet listing, both
\* with the file's LBA and data length.
C1_RoundTrip ==
    BuildSucceeded =>
        \A i \in Files :
            LET f == fileEntries[i]
                size == tree[f.diskPath].size
            IN /\ f.iso9660Size = size
               /\ \A k \in 0..(CeilDiv(size, SectorSize) - 1) :
                     /\ f.iso9660Sector + k + 1 <= Len(output.sectors)
                     /\ output.sectors[f.iso9660Sector + k + 1] =
                            [p |-> [kind |-> "file", source |-> f.diskPath, len |-> size], k |-> k]
               /\ \A isJoliet \in BOOLEAN :
                     LET listing == ListingInImage(f.parentIndex, isJoliet)
                     IN /\ listing.kind = (IF isJoliet THEN "jolietdir" ELSE "isodir")
                        /\ listing.dir = f.parentIndex
                        /\ Cardinality(RecordsOf(i, listing)) = 1
                        /\ \A k \in RecordsOf(i, listing) :
                              /\ listing.records[k].dr.LocationExtent = f.iso9660Sector
                              /\ listing.records[k].dr.DataLength = size

C1_Witness ==
    /\ BuildSucceeded
    /\ \E i \in Files : fileEntries[i].iso9660Size > SectorSize /\ fileEntries[i].level = 2
    /\ \E i \in Files : fileEntries[i].iso9660Size = 0

\* the sectors the plan accounts for
PathTableSectors ==
    2 * (CeilDiv(BytesLen(tables.pvdPathTableLData), SectorSize)
         + CeilDiv(BytesLen(tables.pvdPathTableMData), SectorSize)
         + CeilDiv(BytesLen(tables.svdPathTableLData), SectorSize)
         + CeilDiv(BytesLen(tables.svdPathTableMData), SectorSize))

ContentSectors ==
    SumSeq([i \in 1..Len(fileEntries) |->
        IF fileEntries[i].isDir
        THEN fileEntries[i].iso9660Size \div SectorSize + fileEntries[i].jolietSize \div SectorSize
        ELSE IF fileEntries[i].iso9660Size = 0 THEN 1
        ELSE CeilDiv(fileEntries[i].iso9660Size, SectorSize)])

\* C2: after a successful Build the output file is exactly totalSectors * 2048
\* bytes long, and totalSectors is 19 + the sectors of the eight path-table
\* placements + the sectors of every directory and file extent + 1.
C2_ImageSize ==
    BuildSucceeded =>
        /\ Len(output.sectors) * SectorSize = totalSectors * SectorSize
        /\ totalSectors = 19 + PathTableSectors + ContentSectors + 1

C2_Witness ==
    /\ BuildSucceeded
    /\ \E i \in Files : fileEntries[i].iso9660Size > SectorSize
    /\ \E i \in Dirs : i # 1
    /\ totalSectors > 30

\* C3: once planned, every file has the same LBA and the same extent size in
\* both namespaces, and every directory has different primary and Joliet LBAs.
C3_SharedFileExtents ==
    planned =>
        /\ \A i \in Files : /\ fileEntries[i].iso9660Sector = fileEntries[i].jolietSector
                            /\ fileEntries[i].iso9660Size = fileEntries[i].jolietSize
        /\ \A i \in Dirs : fileEntries[i].iso9660Sector # fileEntries[i].jolietSector

C3_Witness ==
    /\ planned
    /\ \E i \in Files : fileEntries[i].iso9660Size > 0 /\ fileEntries[i].iso9660Sector > 19
    /\ \E i \in Dirs : i # 1

RoundUp(n, m) == CeilDiv(n, m) * m

\* C4: once planned, each directory's extent size in each namespace is a
\* positive multiple of 2048: the sizes of its '.' and '..' records plus the
\* pre-computed record sizes of its children, rounded up to a sector.
C4_DirectoryExtentSize ==
    planned =>
        \A d \in Dirs : \A isJoliet \in BOOLEAN :
            \E size \in {IF isJoliet THEN fileEntries[d].jolietSize ELSE fileEntries[d].iso9660Size} :
            \E listing \in {createDirectoryListing(fileEntries, d, isJoliet)} :
            \E sum \in {listing.records[1].dr.size + listing.records[2].dr.size
                        + SumSeq([k \in 1..Len(fileEntries[d].children) |->
                                    IF isJoliet THEN fileEntries[fileEntries[d].children[k]].actualJolietDrSize
                                    ELSE fileEntries[fileEntries[d].children[k]].actualISO9660DrSize])} :
               /\ size > 0
               /\ size % SectorSize = 0
               /\ size = RoundUp(sum, SectorSize)

C4_Witness ==
    /\ planned
    /\ \E d \in Dirs : fileEntries[d].jolietSize = 2 * SectorSize /\ fileEntries[d].iso9660Size = SectorSize

\* the record of entry i in the listing of its parent, as createDirectoryListing
\* marshals it
OwnRecord(i, isJoliet) ==
    Let(createDirectoryListing(fileEntries, fileEntries[i].parentIndex, isJoliet), LAMBDA listing :
        listing.records[CHOOSE k \in RecordsOf(i, listing) : TRUE].dr)

\* C5: for every entity and each namespace, the record marshalled for it in its
\* parent's listing is as long as the size assignSanitizedNamesAndDrSizes
\* pre-computed, and Build never panics.
C5_RecordLengthAsPlanned ==
    /\ planned =>
          \A i \in 2..Len(fileEntries) : \A isJoliet \in BOOLEAN :
              OwnRecord(i, isJoliet).size =
                  (IF isJoliet THEN fileEntries[i].actualJolietDrSize
                   ELSE fileEntries[i].actualISO9660DrSize)
    /\ ~(ret.op = "Build" /\ ret.err = "panic")

Sector(d, isJoliet) == IF isJoliet THEN fileEntries[d].jolietSector ELSE fileEntries[d].iso9660Sector

\* the directory a path-table record locates
DirAt(record, isJoliet) == CHOOSE d \in Dirs : Sector(d, isJoliet) = record.LocationOfExtent

\* one record per directory
OnePerDirectory(table, isJoliet) ==
    /\ Len(table) = Cardinality(Dirs)
    /\ \A d \in Dirs : Cardinality({k \in 1..Len(table) : table[k].LocationOfExtent = Sector(d, isJoliet)}) = 1

\* (parent's number, identifier) of a before that of b, or the same
MTypeOrdered(a, b, isJoliet) ==
    Let(fileEntries[fileEntries[a].parentIndex].pathTableDirNum, LAMBDA pa :
    Let(fileEntries[fileEntries[b].parentIndex].pathTableDirNum, LAMBDA pb :
        \/ pa < pb
        \/ /\ pa = pb
           /\ ~LexLess(PathTableIdentifier(fileEntries[b], isJoliet),
                       PathTableIdentifier(fileEntries[a], isJoliet))))

\* C6: in each namespace the L-type path table has one record per directory in
\* strictly increasing path-table number; the M-type table has one record per
\* directory, the root first, ordered by the parent's path-table number and,
\* under the same parent, by the bytes of the identifier.
C6_PathTableOrder ==
    planned =>
        \A isJoliet \in BOOLEAN :
            \E ltab \in {IF isJoliet THEN tables.svdPathTableLData ELSE tables.pvdPathTableLData} :
            \E mtab \in {IF isJoliet THEN tables.svdPathTableMData ELSE tables.pvdPathTableMData} :
               /\ OnePerDirectory(ltab, isJoliet)
               /\ \A k \in 1..(Len(ltab) - 1) :
                     fileEntries[DirAt(ltab[k], isJoliet)].pathTableDirNum
                         < fileEntries[DirAt(ltab[k + 1], isJoliet)].pathTableDirNum
               /\ OnePerDirectory(mtab, isJoliet)
               /\ DirAt(mtab[1], isJoliet) = 1
               /\ \A k \in 1..(Len(mtab) - 1) :
                     MTypeOrdered(DirAt(mtab[k], isJoliet), DirAt(mtab[k + 1], isJoliet), isJoliet)

C6_Witness ==
    /\ planned
    /\ Cardinality(Dirs) = 4
    /\ \E k \in 1..4 : tables.pvdPathTableLData[k].LocationOfExtent
                          # tables.pvdPathTableMData[k].LocationOfExtent
    /\ \E k \in 2..4 : tables.pvdPathTableMData[k].ParentDirectoryNumber = 2

\* the entries a name of the argument list matches
Matches(entries, name) == {i \in 2..Len(entries) : entries[i].originalName = name}

Named(entries, names) == UNION {Matches(entries, names[k]) : k \in 1..Len(names)}

\* C7: after MarkFileNamesAsHidden(names) on a scanned table every entity but
\* the root whose original name is one of the names is hidden, and every entity
\* whose original name is none of the names keeps the hidden value it had.
C7_MarkHidesEveryMatch ==
    Len(fileEntries) > 0 =>
        \A names \in HideArgs \ {<<>>} :
            \E after \in {MarkResult(fileEntries, names).entries} :
               /\ Len(after) = Len(fileEntries)
               /\ \A i \in Named(fileEntries, names) : after[i].isHidden
               /\ \A i \in 1..Len(fileEntries) :
                     (\A k \in 1..Len(names) : fileEntries[i].originalName # names[k])
                         => after[i].isHidden = fileEntries[i].isHidden

C7_Witness ==
    /\ ret.op = "MarkFileNamesAsHidden"
    /\ \E i, j \in Files : /\ fileEntries[i].isHidden /\ fileEntries[j].isHidden
                           /\ fileEntries[i].level # fileEntries[j].level
                           /\ fileEntries[i].originalName = fileEntries[j].originalName
    /\ \E i \in Files : ~fileEntries[i].isHidden
    /\ \E d \in Dirs : d # 1 /\ ~fileEntries[d].isHidden

\* Build got as far as writing the image from the current table
BuildWrote ==
    /\ ret.op = "Build"
    /\ ret.err \notin {"scanning source directory", "calculating ISO layout", "create"}

Bit(flags, n) == (flags \div (2 ^ n)) % 2 = 1

\* the directory listings in the image
ListingsInImage ==
    {output.sectors[x].p : x \in {y \in 1..Len(output.sectors) :
                                     output.sectors[y].p.kind \in {"isodir", "jolietdir"}}}

VolumeDescriptorsInImage ==
    {output.sectors[x].p : x \in {y \in 1..Len(output.sectors) :
                                     output.sectors[y].p.kind \in {"pvd", "svd"}}}

\* C8: in every directory record of the image, file-flags bit 1 is set iff the
\* entity described is a directory and bit 0 iff it is hidden and the record is
\* its own entry in its parent's listing; '.' and '..' records and the root
\* records of the PVD and SVD never have bit 0.
C8_FileFlags ==
    BuildWrote =>
        /\ \A listing \in ListingsInImage : \A k \in 1..Len(listing.records) :
              \E r \in {listing.records[k]} :
                 /\ Bit(r.dr.FileFlags, 1) <=> fileEntries[r.target].isDir
                 /\ Bit(r.dr.FileFlags, 0) <=> (fileEntries[r.target].isHidden /\ r.role = "child")
        /\ \A vd \in VolumeDescriptorsInImage :
              /\ Bit(vd.RootDirectoryRecord.FileFlags, 1)
              /\ ~Bit(vd.RootDirectoryRecord.FileFlags, 0)

C8_Witness ==
    /\ BuildWrote
    /\ VolumeDescriptorsInImage # {}
    /\ \E listing \in ListingsInImage : \E k \in 1..Len(listing.records) :
          /\ listing.records[k].role = "dot"
          /\ fileEntries[listing.records[k].target].isHidden
    /\ \E listing \in ListingsInImage : \E k \in 1..Len(listing.records) :
          /\ listing.records[k].role = "dotdot"
          /\ fileEntries[listing.records[k].target].isHidden
    /\ \E listing \in ListingsInImage : \E k \in 1..Len(listing.records) :
          /\ listing.records[k].role = "child"
          /\ Bit(listing.records[k].dr.FileFlags, 0)

\* the table with no entity marked hidden
Unhidden(entries) == [i \in 1..Len(entries) |-> [entries[i] EXCEPT !.isHidden = FALSE]]

\* what the planner decides for an entity
Placement(f) ==
    <<f.iso9660Sector, f.jolietSector, f.iso9660Size, f.jolietSize,
      f.actualISO9660DrSize, f.actualJolietDrSize>>

\* C9: with any entities marked hidden, calculateLayout yields the total
\* sectors, the eight path-table LBAs and, for every entity, the LBAs, extent
\* sizes and directory-record sizes that it yields with no entity marked.
C9_HiddenLeavesLayout ==
    planned =>
        \E lay \in {calculateLayout(fileEntries)} : \E clean \in {calculateLayout(Unhidden(fileEntries))} :
           /\ totalSectors = lay.totalSectors
           /\ \A i \in 1..Len(fileEntries) : Placement(fileEntries[i]) = Placement(lay.fileEntries[i])
           /\ lay.totalSectors = clean.totalSectors
           /\ lay.pt = clean.pt
           /\ pt = clean.pt
           /\ \A i \in 1..Len(fileEntries) : Placement(lay.fileEntries[i]) = Placement(clean.fileEntries[i])

C9_Witness ==
    /\ planned
    /\ ret.op = "Build"
    /\ \E i \in Files : fileEntries[i].isHidden /\ fileEntries[i].level = 2
    /\ \E i \in Files : ~fileEntries[i].isHidden

\* a name MarkFileNamesAsHidden only reports
Reported(entries, name) ==
    \/ name = <<>>
    \/ name = DOTNAME
    \/ name = DOTDOTNAME
    \/ name = ROOTNAME
    \/ Matches(entries, name) = {}

\* Build with no I/O failing succeeds on the table
BuildSucceedsOn(entries) ==
    \E lay \in {calculateLayout(entries)} :
        /\ ~lay.err
        /\ WriteStages(Planned(lay)).none.err = "nil"

\* every name of every argument list that is not only reported is applied
NamesApplied ==
    Len(fileEntries) > 0 =>
        \A names \in HideArgs \ {<<>>} :
            \E r \in {MarkResult(fileEntries, names)} :
               /\ ~r.panic
               /\ Len(r.errors) = Cardinality({k \in 1..Len(names) : Reported(fileEntries, names[k])})
               /\ \A k \in 1..Len(names) :
                     ~Reported(fileEntries, names[k])
                         => \A i \in Matches(fileEntries, names[k]) : r.entries[i].isHidden

\* a Build that follows a call that reported names ends as it ends with
\* nothing hidden, unless an I/O step fails
BuildAfterReport ==
    (ret.op = "MarkFileNamesAsHidden" /\ ret.err = "issues" /\ Len(fileEntries) > 0
        /\ ret'.op = "Build"
        /\ ret'.err \notin BuildSteps \cup {"scanning source directory"})
        => (ret'.err = "nil" <=> BuildSucceedsOn(Unhidden(fileEntries)))

\* C10: a name that is empty, '.', '..', the root sentinel or matches nothing
\* is only reported: whatever its position, every other name of the call is
\* applied to all its matches, the call does not panic, and a Build that
\* follows a call that reported names succeeds exactly when it succeeds with
\* nothing hidden.
C10_ReportedNamesOnly == []NamesApplied /\ [][BuildAfterReport]_vars

C10_Witness ==
    /\ ret.op = "MarkFileNamesAsHidden"
    /\ ret.err = "issues"
    /\ ~crashed
    /\ \E i \in Files : fileEntries[i].isHidden
    /\ \E d \in Dirs : d # 1 /\ ~fileEntries[d].isHidden

\* what the scanner and the marking record about an entity
Scanned(f) ==
    <<f.originalName, f.diskPath, f.isoPath, f.isDir, f.level, f.parentIndex,
      f.children, f.pathTableDirNum, f.isHidden>>

SameTable(before, after) ==
    /\ Len(after) = Len(before)
    /\ \A i \in 1..Len(before) : Scanned(after[i]) = Scanned(before[i])

\* the hidden bit of every record an entity has in its parent's listing in
\* the image of the next state is the flag the entity has in entries
ImageEncodesHidden(entries) ==
    \A x \in 1..Len(output'.sectors) :
        output'.sectors[x].p.kind \in {"isodir", "jolietdir"} =>
            \A k \in 1..Len(output'.sectors[x].p.records) :
                \E r \in {output'.sectors[x].p.records[k]} :
                    r.role = "child" => (Bit(r.dr.FileFlags, 0) <=> entries[r.target].isHidden)

\* a step of Build: on a populated table it keeps the table, on an empty one
\* it plans what ScanSourceDirectory yields
BuildScansIfNeeded ==
    ret'.op = "Build" =>
        IF Len(fileEntries) > 0 /\ fileEntries[1].isoPath = IsoRoot
        THEN /\ SameTable(fileEntries, fileEntries')
             /\ ret'.err # "scanning source directory"
             /\ (output' # output) => ImageEncodesHidden(fileEntries)
        ELSE \/ ret'.err = "scanning source directory" /\ ~planned'
             \/ /\ planned'
                /\ SameTable(ScanResult(tree, 0).entries, fileEntries')

\* C11: Build scans the source only when the entity table has not been
\* populated: a Build that follows ScanSourceDirectory and
\* MarkFileNamesAsHidden keeps the table, so the image encodes exactly the
\* hidden flags the marking set; Build on a fresh builder scans before it plans.
C11_BuildScansIfNeeded == [][BuildScansIfNeeded]_vars

C11_Witness ==
    /\ ret.op = "Build"
    /\ ret.err = "nil"
    /\ \E i \in Files : fileEntries[i].isHidden
    /\ \E i \in Files : ~fileEntries[i].isHidden
    /\ \E listing \in ListingsInImage : \E k \in 1..Len(listing.records) :
          /\ listing.records[k].role = "child"
          /\ Bit(listing.records[k].dr.FileFlags, 0)

\* A-Z, 0-9 and '_'
DChars == (65..90) \cup (48..57) \cup {UNDERSCORE}

Dots(name) == {k \in 1..Len(name) : name[k] = DOT}

\* the identifier without its last two characters
Stem(identifier) == SubSeq(identifier, 1, Len(identifier) - 2)

\* BASE[.EXT];1 with BASE of at most 8 and EXT of at most 3 characters of DChars
IsLevel1FileIdentifier(identifier) ==
    /\ Len(identifier) >= 2
    /\ SubSeq(identifier, Len(identifier) - 1, Len(identifier)) = <<SEMICOLON, 49>>
    /\ \E stem \in {Stem(identifier)} :
          /\ Cardinality(Dots(stem)) <= 1
          /\ \A k \in 1..Len(stem) : stem[k] \in DChars \cup {DOT}
          /\ IF Dots(stem) = {} THEN Len(stem) <= 8
             ELSE \E p \in Dots(stem) : p - 1 <= 8 /\ Len(stem) - p <= 3

\* C12: the primary identifier of every file has the form BASE[.EXT];1 with
\* BASE of at most 8 and EXT of at most 3 characters from A-Z, 0-9 and '_' and
\* at most one '.' in the whole identifier.
C12_FileIdentifierForm ==
    planned => \A i \in Files : IsLevel1FileIdentifier(fileEntries[i].iso9660Name)

DirsBelowRoot == Dirs \ {1}

\* C13: the primary identifier of every directory but the root is 1 to 8
\* characters from A-Z, 0-9 and '_', so it holds no '.' and no version suffix;
\* a name that sanitises to nothing gets DIR.
C13_DirectoryIdentifierForm ==
    /\ planned =>
          \A d \in DirsBelowRoot :
              \E identifier \in {fileEntries[d].iso9660Name} :
                 /\ Len(identifier) \in 1..8
                 /\ \A k \in 1..Len(identifier) : identifier[k] \in DChars
                 /\ identifier = sanitizeISO9660Name(fileEntries[d].originalName, TRUE)
    /\ sanitizeISO9660Name(<<>>, TRUE) = DIRNAME

C13_Witness ==
    /\ planned
    /\ \E d \in DirsBelowRoot :
          /\ Len(fileEntries[d].originalName) > 8
          /\ DOT \in Range(fileEntries[d].originalName)
          /\ 45 \in Range(fileEntries[d].originalName)
          /\ Len(fileEntries[d].iso9660Name) = 8

\* the number of UTF-16 code units of a name
CodeUnits(name) == Len(encodeUTF16BE(name)) \div 2

\* C14: the Joliet identifier of every entity encodes to at most 64 code
\* units, that is at most 128 identifier bytes; a name of at most 64 code units
\* is kept as it is.
C14_JolietIdentifierLength ==
    planned =>
        \A i \in 2..Len(fileEntries) :
            /\ CodeUnits(fileEntries[i].jolietName) <= JolietMaxFilenameChars
            /\ Len(getDRIdentifierBytes(fileEntries[i].jolietName, TRUE, FALSE)) <= 2 * JolietMaxFilenameChars
            /\ CodeUnits(fileEntries[i].originalName) <= JolietMaxFilenameChars
                  => fileEntries[i].jolietName = fileEntries[i].originalName

\* the nodes of the source tree the scanner makes entries of
ScannedNodes == {n \in 2..Len(tree) : tree[n].kind \in {"dir", "file"}}

\* C15: sanitizeISO9660Name and truncateJolietName give for their own result
\* that result again, and every scanned entity, also one whose primary
\* identifier is that of a sibling, is kept with the identifier the sanitiser
\* yields for its own name.
C15_NamesIdempotent ==
    planned =>
        /\ Len(fileEntries) = 1 + Cardinality(ScannedNodes)
        /\ \A i \in 2..Len(fileEntries) :
              \E f \in {fileEntries[i]} :
              \E sanitized \in {sanitizeISO9660Name(f.originalName, f.isDir)} :
                 /\ f.iso9660Name = (IF f.isDir THEN sanitized ELSE sanitized \o <<SEMICOLON, 49>>)
                 /\ sanitizeISO9660Name(sanitized, f.isDir) = sanitized
                 /\ f.jolietName = truncateJolietName(f.originalName)
                 /\ truncateJolietName(f.jolietName) = f.jolietName
                 /\ i \in Range(fileEntries[f.parentIndex].children)

\* max(1, ceil(size / SectorSize)) for a size of 0 .. 2^32 - 1 bytes
SectorsOfFile(size) ==
    IF size = 0 THEN 1
    ELSE DivU32(size, SectorSize) + (IF size % SectorSize = 0 THEN 0 ELSE 1)

\* the LBA the planner hands out after the extent of file i: that of the next
\* file of the table, or of the first Joliet directory extent
LBAAfterFile(i) ==
    IF \E j \in Files : j > i
    THEN fileEntries[CHOOSE j \in Files : j > i /\ \A k \in Files : k > i => j <= k].iso9660Sector
    ELSE fileEntries[1].jolietSector

\* the sectors of the image that hold file i
CellsOfFile(i) ==
    {x \in 1..Len(output.sectors) :
        output.sectors[x].p.kind = "file" /\ output.sectors[x].p.source = fileEntries[i].diskPath}

\* C16: for every file the planner advances the running LBA by
\* max(1, ceil(size/2048)) sectors, the 32-bit sums and products do not wrap,
\* and the writer fills that many sectors; a Build in which no I/O fails does
\* not fail on a file, and an empty file has one sector and data length 0.
C16_FileExtentSectors ==
    /\ planned =>
          \A i \in Files :
              /\ sectorsToContainFileBytes(fileEntries[i].iso9660Size)
                    = SectorsOfFile(fileEntries[i].iso9660Size)
              /\ LBAAfterFile(i) - fileEntries[i].iso9660Sector
                    = SectorsOfFile(fileEntries[i].iso9660Size)
              /\ tree[fileEntries[i].diskPath].size = 0 =>
                    /\ fileEntries[i].iso9660Size = 0
                    /\ \A isJoliet \in BOOLEAN : OwnRecord(i, isJoliet).DataLength = 0
    /\ BuildSucceeded =>
          \A i \in Files :
              CellsOfFile(i) = (fileEntries[i].iso9660Sector + 1) ..
                               (fileEntries[i].iso9660Sector + SectorsOfFile(fileEntries[i].iso9660Size))
    /\ ret.op = "Build" => ret.err \notin {"data length > allocated", "size mismatch"}

\* the position of a write step in Build
StepRank(step) ==
    CASE step = "system area" -> 1
      [] step = "volume descriptors" -> 2
      [] step = "path tables" -> 3
      [] step = "directory contents" -> 4
      [] step = "file data" -> 5
      [] step = "finalize" -> 6

\* the write step that writes a region
StepOfRegion(kind) ==
    CASE kind = "system" -> 1
      [] kind \in {"pvd", "svd", "terminator"} -> 2
      [] kind = "pathtable" -> 3
      [] kind \in {"isodir", "jolietdir"} -> 4
      [] kind = "file" -> 5

\* the write steps that the log of the output file shows
StepsLogged(log) == {StepOfRegion(log[k].kind) : k \in 1..Len(log)}

\* a step of Build in which the creation of the output file or a write step
\* fails: the file is as the earlier steps wrote it, and closed
BuildStopsAtFailure ==
    ret'.op = "Build" =>
        /\ ~output'.open
        /\ ret'.err = "create" => output' = output
        /\ \A step \in BuildSteps \ {"create"} :
              ret'.err = step =>
                  /\ output'.exists
                  /\ StepsLogged(output'.log) \subseteq 1..(StepRank(step) - 1)
                  /\ (1..(StepRank(step) - 1)) \ {5} \subseteq StepsLogged(output'.log)
                  /\ (StepRank(step) > 5 /\ \E i \in 1..Len(fileEntries') : ~fileEntries'[i].isDir)
                        => 5 \in StepsLogged(output'.log)
        /\ ret'.err = "nil" => output'.exists /\ Len(output'.sectors) = totalSectors'

RegionRank(kind) ==
    CASE kind = "system" -> 1
      [] kind = "pvd" -> 2
      [] kind = "svd" -> 3
      [] kind = "terminator" -> 4
      [] kind = "pathtable" -> 5
      [] kind = "isodir" -> 6
      [] kind = "file" -> 7
      [] kind = "jolietdir" -> 8

\* C18: the regions are written in the order system area, PVD, SVD,
\* Terminator, path tables, primary directory listings, file extents, Joliet
\* directory listings: no region is written before one that precedes it there.
C18_WriteOrder ==
    \A a, b \in 1..Len(output.log) :
        a < b => RegionRank(output.log[a].kind) <= RegionRank(output.log[b].kind)

\* the regions of the log: what was written and where
Regions(log) == [k \in 1..Len(log) |-> <<log[k].kind, log[k].lba>>]

\* the regions Build writes for the planned table, in the order of the code:
\* the listings of a directory one after the other, the files last
RegionsAsBuilt ==
    <<<<"system", 0>>, <<"pvd", SystemAreaNumSectors>>, <<"svd", SystemAreaNumSectors + 1>>,
      <<"terminator", SystemAreaNumSectors + 2>>,
      <<"pathtable", pt.lbaPvdPathTableL>>, <<"pathtable", pt.lbaPvdPathTableL2>>,
      <<"pathtable", pt.lbaPvdPathTableM>>, <<"pathtable", pt.lbaPvdPathTableM2>>,
      <<"pathtable", pt.lbaSvdPathTableL>>, <<"pathtable", pt.lbaSvdPathTableL2>>,
      <<"pathtable", pt.lbaSvdPathTableM>>, <<"pathtable", pt.lbaSvdPathTableM2>>>>
    \o Flatten([i \in 1..Len(fileEntries) |->
                  IF fileEntries[i].isDir
                  THEN <<<<"isodir", fileEntries[i].iso9660Sector>>,
                         <<"jolietdir", fileEntries[i].jolietSector>>>>
                  ELSE <<>>])
    \o Flatten([i \in 1..Len(fileEntries) |->
                  IF fileEntries[i].isDir THEN <<>>
                  ELSE <<<<"file", fileEntries[i].iso9660Sector>>>>])

IsPrefix(s, t) == Len(s) <= Len(t) /\ s = SubSeq(t, 1, Len(s))

\* C18 (amended): the regions are written in the order system area, PVD, SVD,
\* Terminator, the eight path-table placements, then for every directory in
\* table order its primary listing followed at once by its Joliet listing,
\* then every file extent in table order.
C18_WriteOrderAsBuilt ==
    BuildWrote =>
        /\ IsPrefix(Regions(output.log), RegionsAsBuilt)
        /\ ret.err = "nil" => Regions(output.log) = RegionsAsBuilt

C18_Witness ==
    /\ BuildSucceeded
    /\ Cardinality(Dirs) >= 2
    /\ \E a, b, c \in 1..Len(output.log) :
          /\ a < b /\ b < c
          /\ output.log[a].kind = "jolietdir"
          /\ output.log[b].kind = "isodir"
          /\ output.log[c].kind = "file"

\* the extents in the order of assignment: <<entry, namespace>>, the primary
\* extent of every directory, every file, the Joliet extent of every directory
ContentExtents ==
    Flatten([i \in 1..Len(fileEntries) |-> IF fileEntries[i].isDir THEN <<<<i, FALSE>>>> ELSE <<>>])
    \o Flatten([i \in 1..Len(fileEntries) |-> IF fileEntries[i].isDir THEN <<>> ELSE <<<<i, FALSE>>>>])
    \o Flatten([i \in 1..Len(fileEntries) |-> IF fileEntries[i].isDir THEN <<<<i, TRUE>>>> ELSE <<>>])

\* the sectors of an extent
ExtentSectors(i, isJoliet) ==
    IF fileEntries[i].isDir
    THEN (IF isJoliet THEN fileEntries[i].jolietSize ELSE fileEntries[i].iso9660Size) \div SectorSize
    ELSE SectorsOfFile(fileEntries[i].iso9660Size)

\* C19: the planner assigns contiguous LBAs from the sector after the last path
\* table to the primary extent of every directory in table order, then to
\* every file, then to the Joliet extent of every directory; every primary
\* directory LBA is below every file LBA, which is below every Joliet
\* directory LBA.
C19_ContentLBAOrder ==
    planned =>
        \E extents \in {ContentExtents} :
           /\ Sector(extents[1][1], extents[1][2])
                 = pt.lbaSvdPathTableM2 + CeilDiv(BytesLen(tables.svdPathTableLData), SectorSize)
           /\ \A k \in 1..(Len(extents) - 1) :
                 Sector(extents[k + 1][1], extents[k + 1][2])
                     = Sector(extents[k][1], extents[k][2]) + ExtentSectors(extents[k][1], extents[k][2])
           /\ \A d \in Dirs : \A f \in Files : fileEntries[d].iso9660Sector < fileEntries[f].iso9660Sector
           /\ \A f \in Files : \A d \in Dirs : fileEntries[f].iso9660Sector < fileEntries[d].jolietSector
           /\ \A f \in Files : fileEntries[f].jolietSector = fileEntries[f].iso9660Sector

\* the sectors of one placement of a table of the namespace
PlacementSectors(isJoliet) ==
    CeilDiv(calculatePathTableTotalBytes(fileEntries, isJoliet), SectorSize)

\* C20: the path tables are placed contiguously from LBA 19 in the order
\* primary L, primary M, supplementary L, supplementary M and then their
\* second copies in the same order, each over ceil(bytes/2048) sectors of the
\* L-type table of its namespace; the generated L-type and M-type buffers of a
\* namespace are as long as the length used for the allocation, so they fit.
C20_PathTablePlacement ==
    planned =>
        \E p \in {PlacementSectors(FALSE)} : \E s \in {PlacementSectors(TRUE)} :
           /\ pt.lbaPvdPathTableL = SystemAreaNumSectors + 3
           /\ pt.lbaPvdPathTableM = pt.lbaPvdPathTableL + p
           /\ pt.lbaSvdPathTableL = pt.lbaPvdPathTableM + p
           /\ pt.lbaSvdPathTableM = pt.lbaSvdPathTableL + s
           /\ pt.lbaPvdPathTableL2 = pt.lbaSvdPathTableM + s
           /\ pt.lbaPvdPathTableM2 = pt.lbaPvdPathTableL2 + p
           /\ pt.lbaSvdPathTableL2 = pt.lbaPvdPathTableM2 + p
           /\ pt.lbaSvdPathTableM2 = pt.lbaSvdPathTableL2 + s
           /\ BytesLen(tables.pvdPathTableLData) = calculatePathTableTotalBytes(fileEntries, FALSE)
           /\ BytesLen(tables.pvdPathTableMData) = calculatePathTableTotalBytes(fileEntries, FALSE)
           /\ BytesLen(tables.svdPathTableLData) = calculatePathTableTotalBytes(fileEntries, TRUE)
           /\ BytesLen(tables.svdPathTableMData) = calculatePathTableTotalBytes(fileEntries, TRUE)
           /\ BytesLen(tables.svdPathTableLData) <= s * SectorSize
           /\ BytesLen(tables.pvdPathTableLData) <= p * SectorSize

\* the identifier bytes of entry i in a namespace
IdentifierOf(i, isJoliet) ==
    getDRIdentifierBytes(IF isJoliet THEN fileEntries[i].jolietName ELSE fileEntries[i].iso9660Name,
                         isJoliet, FALSE)

\* C21: in every directory listing of a built image the records are '.', then
\* '..', then one record per child, and the children follow each other in the
\* byte-wise order of their encoded identifiers: the ASCII bytes in the primary
\* listing, the UCS-2BE bytes in the Joliet listing.
C21_ListingOrder ==
    BuildSucceeded =>
        \A d \in Dirs : \A isJoliet \in BOOLEAN :
            \E records \in {ListingInImage(d, isJoliet).records} :
               /\ Len(records) = 2 + Len(fileEntries[d].children)
               /\ records[1].role = "dot" /\ records[1].target = d
               /\ records[2].role = "dotdot" /\ records[2].target = fileEntries[d].parentIndex
               /\ \A c \in Range(fileEntries[d].children) :
                     Cardinality({k \in 3..Len(records) : records[k].target = c}) = 1
               /\ \A k \in 3..(Len(records) - 1) :
                     ~LexLess(IdentifierOf(records[k + 1].target, isJoliet),
                              IdentifierOf(records[k].target, isJoliet))

\* the identifier handed to marshalDirectoryRecord for the record at position
\* k of the listing of directory d
IdentifierMarshalled(d, isJoliet, listing, k) ==
    IF listing.records[k].role = "dot"
    THEN getDRIdentifierBytes(DOTNAME, isJoliet, fileEntries[d].pathTableDirNum = 1)
    ELSE IF listing.records[k].role = "dotdot"
    THEN getDRIdentifierBytes(DOTDOTNAME, isJoliet, FALSE)
    ELSE IdentifierOf(listing.records[k].target, isJoliet)

\* every record of every listing satisfies P(record, identifier handed in)
EveryRecord(P(_, _)) ==
    \A d \in Dirs : \A isJoliet \in BOOLEAN :
        \E listing \in {createDirectoryListing(fileEntries, d, isJoliet)} :
            \A k \in 1..Len(listing.records) :
                P(listing.records[k].dr, IdentifierMarshalled(d, isJoliet, listing, k))

C23_EscapeSequence ==
    \A vd \in VolumeDescriptorsInImage :
        vd.kind = "svd" => vd.EscapeSequences = <<37, 47, 69>> \o Rep(0, 29)

\* the regions of the plan as <<first sector, number of sectors>>: the system
\* area, the three volume descriptors, the eight path-table placements, the
\* extents of the directories and files, and the trailing pad sector
AllocatedRegions ==
    <<<<0, SystemAreaNumSectors>>, <<SystemAreaNumSectors, 1>>,
      <<SystemAreaNumSectors + 1, 1>>, <<SystemAreaNumSectors + 2, 1>>,
      <<pt.lbaPvdPathTableL, PlacementSectors(FALSE)>>, <<pt.lbaPvdPathTableM, PlacementSectors(FALSE)>>,
      <<pt.lbaPvdPathTableL2, PlacementSectors(FALSE)>>, <<pt.lbaPvdPathTableM2, PlacementSectors(FALSE)>>,
      <<pt.lbaSvdPathTableL, PlacementSectors(TRUE)>>, <<pt.lbaSvdPathTableM, PlacementSectors(TRUE)>>,
      <<pt.lbaSvdPathTableL2, PlacementSectors(TRUE)>>, <<pt.lbaSvdPathTableM2, PlacementSectors(TRUE)>>>>
    \o [k \in 1..Len(ContentExtents) |->
           <<Sector(ContentExtents[k][1], ContentExtents[k][2]),
             ExtentSectors(ContentExtents[k][1], ContentExtents[k][2])>>]
    \o <<<<totalSectors - 1, 1>>>>

\* C24: once planned, the regions of the plan are non-empty, lie within
\* [0, totalSectors), are pairwise disjoint and together cover every sector of
\* [0, totalSectors); every write of the image writer stays within one region
\* that no other write touches.
C24_RegionsPartitionImage ==
    planned =>
        \E regions \in {AllocatedRegions} :
           /\ \A r \in 1..Len(regions) :
                 /\ regions[r][2] >= 1
                 /\ regions[r][1] >= 0
                 /\ regions[r][1] + regions[r][2] <= totalSectors
           /\ \A x \in 0..(totalSectors - 1) :
                 Cardinality({r \in 1..Len(regions) :
                                 regions[r][1] <= x /\ x < regions[r][1] + regions[r][2]}) = 1
           /\ BuildWrote =>
                 \A a, b \in 1..Len(output.log) :
                     a # b => \/ output.log[a].lba + output.log[a].sectors <= output.log[b].lba
                              \/ output.log[b].lba + output.log[b].sectors <= output.log[a].lba

\* in a path table every record but the root's names, as its parent directory
\* number, the position in the table of the record of its parent directory,
\* and that record comes earlier in the table
ParentNumbersArePositions(table, isJoliet) ==
    \A k \in 1..Len(table) :
        DirAt(table[k], isJoliet) # 1 =>
            /\ table[k].ParentDirectoryNumber \in 1..(k - 1)
            /\ DirAt(table[table[k].ParentDirectoryNumber], isJoliet)
                   = fileEntries[DirAt(table[k], isJoliet)].parentIndex

\* C25: in every generated path table (L-type and M-type, both namespaces) the
\* parent directory number of each non-root record is the 1-based position,
\* in that same table, of the record of its parent directory, which precedes
\* the record of the child.
C25_ParentNumbers ==
    planned =>
        /\ ParentNumbersArePositions(tables.pvdPathTableLData, FALSE)
        /\ ParentNumbersArePositions(tables.svdPathTableLData, TRUE)
        /\ ParentNumbersArePositions(tables.pvdPathTableMData, FALSE)
        /\ ParentNumbersArePositions(tables.svdPathTableMData, TRUE)

\* the offset, within the extent, of the first byte of the record at position
\* k of a listing
RecordOffset(listing, k) == SumSeq([j \in 1..(k - 1) |-> listing.records[j].dr.size])

\* C26: in every directory listing written to the image, each record's first
\* and last byte lie in the same 2048-byte sector of the directory's extent.
C26_NoRecordStraddlesSector ==
    BuildWrote =>
        \A listing \in ListingsInImage : \A k \in 1..Len(listing.records) :
            RecordOffset(listing, k) \div SectorSize
                = (RecordOffset(listing, k) + listing.records[k].dr.size - 1) \div SectorSize

\* the identifier-length byte of every record of a path table is the length
\* of the identifier of the directory the record is made for
PathTableLengthsTrue(isJoliet, useBigEndian) ==
    \E dirs \in {pathTableDirs(fileEntries)} :
    \E table \in {createPathTable(fileEntries, isJoliet, useBigEndian)} :
        \A k \in 1..Len(table) :
            \E d \in Range(dirs) :
               /\ Sector(d, isJoliet) = table[k].LocationOfExtent
               /\ table[k].identifierLen = Len(PathTableIdentifier(fileEntries[d], isJoliet))

\* C27: in every directory record and path-table record the encoders emit,
\* byte 0 of a directory record is the record's byte length, and the
\* identifier-length byte (byte 32 of a directory record, byte 0 of a
\* path-table record) is the number of bytes of the identifier encoded.
C27_LengthBytesTrue ==
    planned =>
        /\ EveryRecord(LAMBDA dr, identifier :
               /\ dr.recordLenByte = dr.size
               /\ dr.size = RoundUp(drFixedPartSize + Len(identifier), 2)
               /\ dr.identifierLen = Len(identifier))
        /\ \A isJoliet \in BOOLEAN : \A useBigEndian \in BOOLEAN :
               PathTableLengthsTrue(isJoliet, useBigEndian)

\* a step of Build that returns the error of the scan or of calculateLayout
\* leaves the file at the output path as it was
BuildFailsBeforeCreate ==
    (ret'.op = "Build" /\ ret'.err \in {"scanning source directory", "calculating ISO layout"})
        => output' = output

\* C28: Build creates or truncates the output file only after the scan and
\* calculateLayout have both succeeded: when either returns an error, Build
\* returns that error and a file already present at the output path is left
\* unmodified.
C28_NoOutputBeforeLayout == [][BuildFailsBeforeCreate]_vars

C28_Witness ==
    /\ ret = [op |-> "Build", err |-> "calculating ISO layout"]
    /\ Len(fileEntries) = 2
    /\ output.exists
    /\ output.sectors = OldImage

\* a step of Build that follows a ScanSourceDirectory that returned an error:
\* Build returns an error, or the table it planned holds every entity of the
\* source
BuildAfterFailedScan ==
    (ret = [op |-> "ScanSourceDirectory", err |-> "reading directory"] /\ ret'.op = "Build") =>
        \/ ret'.err # "nil"
        \/ /\ planned'
           /\ Len(fileEntries') = 1 + Cardinality(ScannedNodes)

\* C29: when ScanSourceDirectory has returned an error part-way through the
\* tree, the next Build on the same builder does not plan and write an image
\* from the partially populated table: it scans again or it fails.
C29_NoImageFromPartialScan == [][BuildAfterFailedScan]_vars

\* a name MarkFileNamesAsHidden looks up in the table
Ordinary(name) == name # <<>> /\ name # DOTNAME /\ name # DOTDOTNAME

\* on an empty table, every argument list with an ordinary name is reported
\* without a run-time panic and the table stays empty
EmptyTableReported ==
    Len(fileEntries) = 0 =>
        \A names \in HideArgs :
            (\E k \in 1..Len(names) : Ordinary(names[k])) =>
                \E r \in {MarkResult(fileEntries, names)} :
                   /\ ~r.panic
                   /\ r.errors # <<>>
                   /\ r.entries = fileEntries

\* a step of MarkFileNamesAsHidden on an empty table does not end the process
\* and changes nothing of the builder
MarkOnEmptyTable ==
    (Len(fileEntries) = 0 /\ ret'.op = "MarkFileNamesAsHidden") =>
        /\ ~crashed'
        /\ ret'.err \in {"nil", "issues"}
        /\ UNCHANGED <<fileEntries, totalSectors, pt, tables, pvdRootDirExtentSize,
                       svdRootDirExtentSize, output, planned, options>>

\* C30: MarkFileNamesAsHidden called with at least one ordinary name on a
\* builder whose entity table is empty returns an error value and leaves the
\* builder unchanged; it does not crash on the missing root entry.
C30_MarkOnEmptyTable == []EmptyTableReported /\ [][MarkOnEmptyTable]_vars

====
